---- MODULE Spec2Model ----
(***************************************************************************)
(* Reproductive-cycle state computation and milestone alerts of SweetCow.   *)
(*                                                                         *)
(* A Date is an integer number of ticks since the epoch; TicksPerDay ticks *)
(* make one calendar day, so two Dates can fall on the same day at         *)
(* different times of day.  The server's local time is UTC plus a fixed    *)
(* offset of tz ticks (no daylight saving), so Date.setDate(getDate()+n)   *)
(* moves a Date by n*TicksPerDay ticks.  Tick 0 is 1970-01-01T00:00Z.      *)
(* A nullable value is <<>> (null / undefined) or <<v>>.                   *)
(***************************************************************************)
EXTENDS Integers, Sequences, FiniteSets, TLC

VARIABLES cows, insems, settings, now, resp

\* calves and confirmations of the snapshot, the server's UTC offset, the
\* request seen by the community filter, and the next _id the store hands out
VARIABLES calves, confirmations, tz, req, nextId

\* the audit log, the session's override flag, the adult records made from
\* calves, and the graduation runs in progress
VARIABLES audits, cowOverride, adults, procs

vars == <<cows, insems, settings, now, resp, calves, confirmations, tz, req, nextId,
          audits, cowOverride, adults, procs>>

(* ------------------------------ bounds --------------------------------- *)
TicksPerDay == 2
MaxEvents == 2
MaxDate == 1
MaxNow == 3

(* --------------------------- nullable values --------------------------- *)
Null == <<>>

Some(v) == <<v>>

\* JavaScript  x || d  on a nullable number: null, undefined and 0 are falsy
OrDefault(x, d) == IF x = Null \/ x = <<0>> THEN d ELSE x[1]

\* JavaScript  x ?? d  on a nullable number: only null and undefined
NullishDefault(x, d) == IF x = Null THEN d ELSE x[1]

(* ------------------------------ settings -------------------------------- *)
TimingParams ==
  { "gestationDays", "dryOffAfterSuccessfulInsemDays",
    "changeFeedAfterSuccessfulInsemDays", "postpartumInseminationStartDays",
    "inseminationIntervalDays", "calvingAlertBeforeDays",
    "dryOffAlertBeforeDays", "changeFeedAlertBeforeDays",
    "pregnancyCheckAlertBeforeDays", "inseminationAlertBeforeDays",
    "graduationAlertBeforeDays", "weaningAlertBeforeDays",
    "femaleWeaningDays", "maleWeaningDays",
    "femaleMaturityMonths", "maleMaturityMonths" }

\* A Settings document; a missing document reads like one with every field
\* absent, because every reader goes through  settings?.x  or  findOne() || {}
SettingsAllAbsent == [p \in TimingParams |-> Null]

SettingsAllZero == [p \in TimingParams |-> Some(0)]

SettingsCustom ==
  [ gestationDays |-> Some(4),
    dryOffAfterSuccessfulInsemDays |-> Some(2),
    changeFeedAfterSuccessfulInsemDays |-> Some(3),
    postpartumInseminationStartDays |-> Some(2),
    inseminationIntervalDays |-> Some(1),
    calvingAlertBeforeDays |-> Some(2),
    dryOffAlertBeforeDays |-> Some(1),
    changeFeedAlertBeforeDays |-> Some(1),
    pregnancyCheckAlertBeforeDays |-> Some(1),
    inseminationAlertBeforeDays |-> Some(1),
    graduationAlertBeforeDays |-> Some(1),
    weaningAlertBeforeDays |-> Some(1),
    femaleWeaningDays |-> Some(3),
    maleWeaningDays |-> Some(2),
    femaleMaturityMonths |-> Some(2),
    maleMaturityMonths |-> Some(1) ]

SettingsDocs == {SettingsAllAbsent, SettingsAllZero, SettingsCustom}

(* ------------------------- default tables ------------------------------- *)
\* buildPregnancyInfo:  settings?.x || d
calcDefaults ==
  [ gestationDays |-> 283,
    dryOffAfterSuccessfulInsemDays |-> 220,
    changeFeedAfterSuccessfulInsemDays |-> 260,
    postpartumInseminationStartDays |-> 60,
    inseminationIntervalDays |-> 90 ]

\* buildAlerts:  settings?.x ?? d  (lead times, weaning days, maturity months)
alertDefaults ==
  [ calvingAlertBeforeDays |-> 10,
    dryOffAlertBeforeDays |-> 1,
    changeFeedAlertBeforeDays |-> 1,
    pregnancyCheckAlertBeforeDays |-> 3,
    inseminationAlertBeforeDays |-> 0,
    graduationAlertBeforeDays |-> 7,
    weaningAlertBeforeDays |-> 7,
    femaleWeaningDays |-> 180,
    maleWeaningDays |-> 180,
    femaleMaturityMonths |-> 24,
    maleMaturityMonths |-> 24 ]

\* POST /cow/:id/insemination:  settings?.postpartumInseminationStartDays || 60
addInseminationDefaults == [ postpartumInseminationStartDays |-> 60 ]

\* confirm / unconfirm / fail:  settings?.inseminationIntervalDays || 90
checkDateDefaults == [ inseminationIntervalDays |-> 90 ]

\* GET /settings: the document created when none exists, and the  == null  fills
settingsPageDefaults ==
  [ gestationDays |-> 283,
    dryOffAfterSuccessfulInsemDays |-> 220,
    changeFeedAfterSuccessfulInsemDays |-> 260,
    postpartumInseminationStartDays |-> 60,
    inseminationIntervalDays |-> 90,
    calvingAlertBeforeDays |-> 10,
    dryOffAlertBeforeDays |-> 1,
    changeFeedAlertBeforeDays |-> 1,
    pregnancyCheckAlertBeforeDays |-> 3,
    inseminationAlertBeforeDays |-> 0,
    graduationAlertBeforeDays |-> 7,
    weaningAlertBeforeDays |-> 7,
    femaleWeaningDays |-> 180,
    maleWeaningDays |-> 180,
    femaleMaturityMonths |-> 24,
    maleMaturityMonths |-> 24 ]

\* GET /community/dashboard:  settings.x || d
dashboardDefaults ==
  [ gestationDays |-> 283,
    postpartumInseminationStartDays |-> 45,
    inseminationIntervalDays |-> 21,
    femaleMaturityMonths |-> 24,
    maleMaturityMonths |-> 24,
    femaleWeaningDays |-> 180,
    maleWeaningDays |-> 180,
    calvingAlertBeforeDays |-> 14 ]

\* communitySchema.cattleSettings: mongoose defaults
communitySchemaDefaults ==
  [ gestationDays |-> 283,
    dryOffAfterSuccessfulInsemDays |-> 220,
    changeFeedAfterSuccessfulInsemDays |-> 210,
    postpartumInseminationStartDays |-> 45,
    inseminationIntervalDays |-> 21,
    calvingAlertBeforeDays |-> 7,
    dryOffAlertBeforeDays |-> 7,
    changeFeedAlertBeforeDays |-> 7,
    pregnancyCheckAlertBeforeDays |-> 7,
    inseminationAlertBeforeDays |-> 7,
    graduationAlertBeforeDays |-> 30,
    weaningAlertBeforeDays |-> 7,
    femaleWeaningDays |-> 60,
    maleWeaningDays |-> 60,
    femaleMaturityMonths |-> 24,
    maleMaturityMonths |-> 24 ]

\* community cattle-settings update route:  parseInt(x) || d
communityUpdateDefaults ==
  [ gestationDays |-> 283,
    dryOffAfterSuccessfulInsemDays |-> 220,
    changeFeedAfterSuccessfulInsemDays |-> 210,
    postpartumInseminationStartDays |-> 45,
    inseminationIntervalDays |-> 21,
    calvingAlertBeforeDays |-> 7,
    dryOffAlertBeforeDays |-> 7,
    changeFeedAlertBeforeDays |-> 7,
    pregnancyCheckAlertBeforeDays |-> 7,
    inseminationAlertBeforeDays |-> 7,
    graduationAlertBeforeDays |-> 30,
    weaningAlertBeforeDays |-> 7,
    femaleWeaningDays |-> 60,
    maleWeaningDays |-> 60,
    femaleMaturityMonths |-> 24,
    maleMaturityMonths |-> 24 ]

(* ------------------------------ dates ----------------------------------- *)
\* d.setDate(d.getDate() + n)
AddDays(d, n) == d + n * TicksPerDay

\* Date.UTC(y, m, d) of the local calendar day, in days
toUTCYMD(d) == (d + tz) \div TicksPerDay

daysBetween(futureOrPastDate, refDate) == toUTCYMD(futureOrPastDate) - toUTCYMD(refDate)

(* ----------------------- insemination records --------------------------- *)
RECURSIVE InsertByDateDesc(_, _)
\* place r behind every record that does not sort after it (stable sort)
InsertByDateDesc(r, s) ==
  IF s = <<>> THEN <<r>>
  ELSE IF Head(s).date >= r.date THEN <<Head(s)>> \o InsertByDateDesc(r, Tail(s))
  ELSE <<r>> \o s

RECURSIVE SortByDateDesc(_)
\* Array.prototype.sort((a,b) => new Date(b.date) - new Date(a.date))
SortByDateDesc(s) ==
  IF s = <<>> THEN <<>>
  ELSE InsertByDateDesc(s[Len(s)], SortByDateDesc(SubSeq(s, 1, Len(s) - 1)))

\* insems.filter(r => String(r.cowId) === String(cow._id))
RecordsOfCow(cowId, recs) ==
  LET Mine(r) == r.cowId = cowId
  IN  SelectSeq(recs, Mine)

(* ------------------- Reproductive state calculator ---------------------- *)
\* const latest = allRecords[0] || null
latestOf(allRecords) == IF allRecords = <<>> THEN Null ELSE Some(allRecords[1])

\* the if / else-if / else on latest.confirmedPregnant and latest.failed
branchOf(latest) ==
  IF latest = Null THEN "none"
  ELSE IF latest[1].confirmedPregnant THEN "confirmed"
  ELSE IF latest[1].failed THEN "failed"
  ELSE "pending"

\* variant: the projection stops one day short
estCalvingOf_OneDayShort(latestDate, gestationDays) == AddDays(latestDate, gestationDays - 1)

\* estCalving = new Date(latestDate); estCalving.setDate(getDate() + gestationDays)
estCalvingOf(latestDate, gestationDays) == AddDays(latestDate, gestationDays)

\* status === 'Pregnant' && lastCalving && conceptionDate && lastCalving > conceptionDate
reopens(branch, lastCalving, latestDate) ==
  branch = "confirmed" /\ lastCalving # Null /\ lastCalving[1] > latestDate

\* variant: the comparison is reversed, the earlier candidate wins
mergeEarliest_TakesEarlier(fromFailure, lastCalving, postpartumStartDays) ==
  IF lastCalving # Null
  THEN LET postpartumEarliest == AddDays(lastCalving[1], postpartumStartDays)
       IN  IF fromFailure # Null
           THEN (IF postpartumEarliest < fromFailure[1]
                 THEN Some(postpartumEarliest) ELSE fromFailure)
           ELSE Some(postpartumEarliest)
  ELSE fromFailure

\* variant: the  if (lastCalving)  guard is missing, new Date(null) is the epoch
mergeEarliest_NoCalvingGuard(fromFailure, lastCalving, postpartumStartDays) ==
  LET postpartumEarliest ==
        AddDays(IF lastCalving = Null THEN 0 ELSE lastCalving[1], postpartumStartDays)
  IN  IF fromFailure # Null
      THEN (IF postpartumEarliest > fromFailure[1]
            THEN Some(postpartumEarliest) ELSE fromFailure)
      ELSE Some(postpartumEarliest)

\* merge of the failure retry constraint with the postpartum constraint
mergeEarliest(fromFailure, lastCalving, postpartumStartDays) ==
  IF lastCalving # Null
  THEN LET postpartumEarliest == AddDays(lastCalving[1], postpartumStartDays)
       IN  IF fromFailure # Null
           THEN (IF postpartumEarliest > fromFailure[1]
                 THEN Some(postpartumEarliest) ELSE fromFailure)
           ELSE Some(postpartumEarliest)
  ELSE fromFailure

\* a nullable day count: daysBetween(d, now) when d is set
daysUntil(d, t) == IF d = Null THEN Null ELSE Some(daysBetween(d[1], t))

buildPregnancyInfo(cow, stg, recs, t) ==
  LET gestationDays == OrDefault(stg.gestationDays, calcDefaults.gestationDays)
      dryOffDays == OrDefault(stg.dryOffAfterSuccessfulInsemDays,
                              calcDefaults.dryOffAfterSuccessfulInsemDays)
      changeFeedDays == OrDefault(stg.changeFeedAfterSuccessfulInsemDays,
                                  calcDefaults.changeFeedAfterSuccessfulInsemDays)
      postpartumStartDays == OrDefault(stg.postpartumInseminationStartDays,
                                       calcDefaults.postpartumInseminationStartDays)
      retryIntervalDays == OrDefault(stg.inseminationIntervalDays,
                                     calcDefaults.inseminationIntervalDays)
      allRecords == SortByDateDesc(RecordsOfCow(cow._id, recs))
      latest == latestOf(allRecords)
      branch == branchOf(latest)
      latestDate == latest[1].date
      lastCalving == cow.lastCalving
      reopen == reopens(branch, lastCalving, latestDate)
      pregnant == branch = "confirmed" /\ ~reopen
      status == CASE pregnant -> "Pregnant"
                  [] branch = "pending" -> "Pending"
                  [] OTHER -> "Open"
      conceptionDate == IF pregnant THEN Some(latestDate) ELSE Null
      estCalving == IF pregnant THEN Some(estCalvingOf(latestDate, gestationDays)) ELSE Null
      dryOffDate == IF pregnant THEN Some(AddDays(latestDate, dryOffDays)) ELSE Null
      changeFeedDate == IF pregnant THEN Some(AddDays(latestDate, changeFeedDays)) ELSE Null
      retryWindowEnd == IF branch = "pending"
                        THEN Some(AddDays(latestDate, retryIntervalDays)) ELSE Null
      fromFailure == IF branch = "failed"
                     THEN Some(AddDays(latestDate, retryIntervalDays)) ELSE Null
      nextInseminationEarliest == mergeEarliest(fromFailure, lastCalving, postpartumStartDays)
  IN  [ status |-> status,
        conceptionDate |-> conceptionDate,
        estCalving |-> estCalving,
        dryOffDate |-> dryOffDate,
        changeFeedDate |-> changeFeedDate,
        retryWindowEnd |-> retryWindowEnd,
        nextInseminationEarliest |-> nextInseminationEarliest,
        canAddInseminationNow |->
          status = "Open" /\ (nextInseminationEarliest = Null \/ t >= nextInseminationEarliest[1]),
        canRetryNow |-> status = "Pending" /\ retryWindowEnd # Null /\ t >= retryWindowEnd[1],
        canConfirmNow |-> status = "Pending" /\ retryWindowEnd # Null /\ t >= retryWindowEnd[1],
        gestationDays |-> gestationDays,
        latest |-> latest,
        allRecordsCount |-> Len(allRecords),
        daysUntilRetryWindowEnd |-> daysUntil(retryWindowEnd, t),
        \* the reopening block resets daysUntilCalving and none of the other three
        daysUntilCalving |-> daysUntil(estCalving, t),
        daysUntilDryOff |->
          IF branch = "confirmed" THEN Some(daysBetween(AddDays(latestDate, dryOffDays), t)) ELSE Null,
        daysUntilChangeFeed |->
          IF branch = "confirmed" THEN Some(daysBetween(AddDays(latestDate, changeFeedDays), t)) ELSE Null,
        daysUntilLatestInsemination |->
          IF latest # Null THEN Some(daysBetween(latestDate, t)) ELSE Null,
        daysUntilLastCalving |-> daysUntil(lastCalving, t),
        daysUntilConception |->
          IF branch = "confirmed" THEN Some(daysBetween(latestDate, t)) ELSE Null,
        daysUntilNextInseminationEarliest |-> daysUntil(nextInseminationEarliest, t) ]

(* --------------------- insemination endpoints: windows ------------------- *)
\* POST /cow/:id/insemination: const postpartumStartDays = ... || 60
addPostpartumStartDays(stg) ==
  OrDefault(stg.postpartumInseminationStartDays,
            addInseminationDefaults.postpartumInseminationStartDays)

\* confirm / unconfirm / fail: const interval = settings?.inseminationIntervalDays || 90
checkInterval(stg) ==
  OrDefault(stg.inseminationIntervalDays, checkDateDefaults.inseminationIntervalDays)

\* checkDate = new Date(doc.date); checkDate.setDate(checkDate.getDate() + interval)
checkDateOf(doc, stg) == AddDays(doc.date, checkInterval(stg))

(* ------------------------ Milestone alert builder ----------------------- *)
\* const lead = { calving: settings?.calvingAlertBeforeDays ?? 10, ... }
lead(stg) ==
  [ calving |-> NullishDefault(stg.calvingAlertBeforeDays, alertDefaults.calvingAlertBeforeDays),
    dryOff |-> NullishDefault(stg.dryOffAlertBeforeDays, alertDefaults.dryOffAlertBeforeDays),
    changeFeed |-> NullishDefault(stg.changeFeedAlertBeforeDays, alertDefaults.changeFeedAlertBeforeDays),
    pregnancyCheck |-> NullishDefault(stg.pregnancyCheckAlertBeforeDays,
                                      alertDefaults.pregnancyCheckAlertBeforeDays),
    insemination |-> NullishDefault(stg.inseminationAlertBeforeDays,
                                    alertDefaults.inseminationAlertBeforeDays),
    graduation |-> NullishDefault(stg.graduationAlertBeforeDays,
                                  alertDefaults.graduationAlertBeforeDays),
    weaning |-> NullishDefault(stg.weaningAlertBeforeDays, alertDefaults.weaningAlertBeforeDays) ]

\* variant: the lead time is added instead of subtracted
alertDateOf_AfterDue(when, l) == AddDays(when, l)

\* alertDate = new Date(when); alertDate.setDate(alertDate.getDate() - l)
alertDateOf(when, l) == AddDays(when, 0 - l)

\* const push = (date, type, label, meta) => { if (!date) return; ... events.push(...) }
push(cow, stg, date, type, label, meta) ==
  IF date = Null THEN <<>>
  ELSE << [ when |-> date[1],
            alertDate |-> alertDateOf(date[1], lead(stg)[type]),
            type |-> type,
            label |-> label,
            entity |-> [type |-> "cow", id |-> cow._id],
            meta |-> meta ] >>

\* the body of  for (const cow of cows) { ... }
cowEvents(cow, stg, recs, t) ==
  LET records == SortByDateDesc(RecordsOfCow(cow._id, recs))
      repro == buildPregnancyInfo(cow, stg, records, t)
      latestId == IF repro.latest = Null THEN Null ELSE Some(repro.latest[1]._id)
  IN  push(cow, stg, repro.retryWindowEnd, "pregnancyCheck", "Pregnancy check", latestId)
      \o push(cow, stg, repro.nextInseminationEarliest, "insemination", "Earliest insemination", Null)
      \o push(cow, stg, repro.dryOffDate, "dryOff", "Dry-Off", Null)
      \o push(cow, stg, repro.changeFeedDate, "changeFeed", "Change Feed", Null)
      \o push(cow, stg, repro.estCalving, "calving", "Estimated Calving", Null)

RECURSIVE allCowEvents(_, _, _, _)
\* the events list after the loop over cows, before confirmation filtering
allCowEvents(cs, stg, recs, t) ==
  IF cs = <<>> THEN <<>>
  ELSE cowEvents(Head(cs), stg, recs, t) \o allCowEvents(Tail(cs), stg, recs, t)

(* --------------------- Community dashboard (needs attention) ------------ *)
\* Math.ceil((a - b) / (1000*60*60*24))
CeilDays(ms) == 0 - ((0 - ms) \div TicksPerDay)

\* Math.floor((a - b) / (1000*60*60*24))
FloorDays(ms) == ms \div TicksPerDay

RECURSIVE FindConfirmed(_)
\* insems.find(i => i.confirmedPregnant && !i.failed)
FindConfirmed(s) ==
  IF s = <<>> THEN Null
  ELSE IF Head(s).confirmedPregnant /\ ~Head(s).failed THEN Some(Head(s))
  ELSE FindConfirmed(Tail(s))

\* one iteration of  for (const cow of allCows)  in GET /community/dashboard
dashboardCow(cow, stg, recs, t) ==
  LET gestationDays == OrDefault(stg.gestationDays, dashboardDefaults.gestationDays)
      postpartumDays == OrDefault(stg.postpartumInseminationStartDays,
                                  dashboardDefaults.postpartumInseminationStartDays)
      inseminationIntervalDays == OrDefault(stg.inseminationIntervalDays,
                                            dashboardDefaults.inseminationIntervalDays)
      calvingAlertDays == OrDefault(stg.calvingAlertBeforeDays,
                                    dashboardDefaults.calvingAlertBeforeDays)
      sorted == SortByDateDesc(RecordsOfCow(cow._id, recs))
      lastInsem == latestOf(sorted)
      confirmedInsem == FindConfirmed(sorted)
      hasConfirmedPregnancy == confirmedInsem # Null
      daysUntilDue == CeilDays(AddDays(confirmedInsem[1].date, gestationDays) - t)
      dueForCalving == hasConfirmedPregnancy
                       /\ daysUntilDue <= calvingAlertDays /\ daysUntilDue >= 0 - 7
      needsInsem ==
        IF hasConfirmedPregnancy THEN FALSE
        ELSE IF lastInsem = Null
             THEN (IF cow.lastCalving # Null
                   THEN FloorDays(t - cow.lastCalving[1]) >= postpartumDays
                   ELSE TRUE)
             ELSE IF lastInsem[1].failed THEN TRUE
             ELSE FloorDays(t - lastInsem[1].date) >= inseminationIntervalDays
  IN  [ cow |-> cow._id, pregnant |-> hasConfirmedPregnancy,
        dueForCalving |-> dueForCalving, needsInsem |-> needsInsem ]

\* needsAttention of GET /community/dashboard: ids in cowsNeedingInsemination / cowsDueForCalving
needsAttention(cs, stg, recs, t) ==
  LET rows == [i \in 1..Len(cs) |-> dashboardCow(cs[i], stg, recs, t)]
      Needs(r) == r.needsInsem
      Due(r) == r.dueForCalving
      Ids(rs) == [i \in 1..Len(rs) |-> rs[i].cow]
  IN  [ cowsNeedingInsemination |-> Ids(SelectSeq(rows, Needs)),
        cowsDueForCalving |-> Ids(SelectSeq(rows, Due)) ]

(* --------------------------- the snapshot -------------------------------- *)
CowIds == {1, 2}

FlagStates == {"pending", "confirmed", "failed"}

\* an insemination attempt as stored: confirm sets (true, false), fail sets
\* (false, true), add and unconfirm leave (false, false)
Attempt(id, cowId, date, flags) ==
  [ _id |-> id, cowId |-> cowId, date |-> date,
    confirmedPregnant |-> (flags = "confirmed"), failed |-> (flags = "failed") ]

\* cow 1 carries the history under study; cow 2 has at most same-day attempts
AttemptShapes ==
  [cowId : {1}, date : 0..MaxDate, flags : FlagStates]
    \cup [cowId : {2}, date : {0}, flags : FlagStates]

\* variant: insems.sort(...) without the filter() copy reorders the caller's array
insemsAfterBuild_SortedInPlace(recs) == SortByDateDesc(recs)

\* what a call of buildPregnancyInfo leaves in the array it was given:
\* filter() returns a new array and sort() reorders that copy only
insemsAfterBuild(recs) == recs

NoResponse == [op |-> "none"]

\* no HTTP request is being served
NoRequest == [kind |-> "none"]

Init ==
  /\ \E lc \in {Null} \cup {Some(d) : d \in 0..MaxDate} :
       cows = << [_id |-> 1, lastCalving |-> lc], [_id |-> 2, lastCalving |-> Null] >>
  /\ \E n \in 0..MaxEvents : \E s \in [1..n -> AttemptShapes] :
       insems = [i \in 1..n |-> Attempt(i, s[i].cowId, s[i].date, s[i].flags)]
  /\ settings \in SettingsDocs
  /\ now = 0
  /\ resp = NoResponse
  /\ calves = <<>>
  /\ confirmations = <<>>
  /\ tz = 0
  /\ req = NoRequest
  /\ nextId = 1
  /\ audits = <<>>
  /\ cowOverride = FALSE
  /\ adults = <<>>
  /\ procs = <<>>

\* buildPregnancyInfo(cow, settings, insems) on the snapshot, at the current time
CallBuildPregnancyInfo(i) ==
  /\ resp' = [ op |-> "buildPregnancyInfo", cow |-> cows[i]._id,
               body |-> buildPregnancyInfo(cows[i], settings, insems, now) ]
  /\ insems' = insemsAfterBuild(insems)
  /\ UNCHANGED <<audits, cowOverride, adults, procs, cows, settings, now, calves, confirmations, tz, req, nextId>>

\* buildAlerts({cows, calves, settings, insems, confirmations}): the events list
CallBuildAlerts ==
  /\ resp' = [ op |-> "buildAlerts", events |-> allCowEvents(cows, settings, insems, now) ]
  /\ UNCHANGED <<audits, cowOverride, adults, procs, cows, insems, settings, now, calves, confirmations, tz, req, nextId>>

\* GET /community/dashboard on the same snapshot
GetCommunityDashboard ==
  /\ resp' = [ op |-> "dashboard", needsAttention |-> needsAttention(cows, settings, insems, now) ]
  /\ UNCHANGED <<audits, cowOverride, adults, procs, cows, insems, settings, now, calves, confirmations, tz, req, nextId>>

\* time passes until a later request; the previous response has been delivered
Tick ==
  /\ now < MaxNow
  /\ now' = MaxNow
  /\ resp' = NoResponse
  /\ UNCHANGED <<audits, cowOverride, adults, procs, cows, insems, settings, calves, confirmations, tz, req, nextId>>

Next ==
  \/ \E i \in 1..Len(cows) : CallBuildPregnancyInfo(i)
  \/ CallBuildAlerts
  \/ GetCommunityDashboard
  \/ Tick

Spec == Init /\ [][Next]_vars

(* ======================= properties: the calculator ===================== *)

\* C1 (as claimed): whenever the cow's events include a confirmedPregnant
\* event dated D1 and cow.lastCalving is strictly after D1, buildPregnancyInfo
\* returns status Open and every pregnancy-derived field (conceptionDate,
\* estCalving, dryOffDate, changeFeedDate and their days-until counterparts)
\* is null, whatever other events the cow has.
C1_ReopeningNullsPregnancyFields ==
  resp.op = "buildPregnancyInfo" =>
    LET cow == cows[resp.cow]
        b == resp.body
    IN  (\E k \in 1..Len(insems) :
           /\ insems[k].cowId = cow._id
           /\ insems[k].confirmedPregnant
           /\ cow.lastCalving # Null
           /\ cow.lastCalving[1] > insems[k].date)
        => /\ b.status = "Open"
           /\ b.conceptionDate = Null /\ b.estCalving = Null
           /\ b.dryOffDate = Null /\ b.changeFeedDate = Null
           /\ b.daysUntilConception = Null /\ b.daysUntilCalving = Null
           /\ b.daysUntilDryOff = Null /\ b.daysUntilChangeFeed = Null

C4_DatesOnlyInTheirState ==
  resp.op = "buildPregnancyInfo" =>
    LET b == resp.body
    IN  /\ b.retryWindowEnd # Null => b.status = "Pending"
        /\ b.estCalving # Null => b.status = "Pregnant"
        /\ b.dryOffDate # Null => b.status = "Pregnant"
        /\ b.changeFeedDate # Null => b.status = "Pregnant"
        /\ b.nextInseminationEarliest # Null => b.status = "Open"

\* C5: a cow with no insemination events and no lastCalving is Open with all
\* derived dates null, and buildAlerts emits no milestone for it.
C5_NoHistoryNoDatesNoMilestones ==
  LET Bare(cow) == /\ cow.lastCalving = Null
                   /\ \A k \in 1..Len(insems) : insems[k].cowId # cow._id
  IN  /\ (resp.op = "buildPregnancyInfo" /\ Bare(cows[resp.cow]))
         => /\ resp.body.status = "Open"
            /\ resp.body.conceptionDate = Null /\ resp.body.estCalving = Null
            /\ resp.body.dryOffDate = Null /\ resp.body.changeFeedDate = Null
            /\ resp.body.retryWindowEnd = Null
            /\ resp.body.nextInseminationEarliest = Null
      /\ resp.op = "buildAlerts"
         => \A i \in 1..Len(cows) : Bare(cows[i])
              => \A e \in 1..Len(resp.events) :
                   ~(resp.events[e].entity.type = "cow"
                     /\ resp.events[e].entity.id = cows[i]._id)

\* C5 witness: buildAlerts has run on a herd where one cow has neither events
\* nor a calving while the other one has milestones
C5_Witness ==
  /\ resp.op = "buildAlerts"
  /\ cows[1].lastCalving = Null
  /\ \A k \in 1..Len(insems) : insems[k].cowId # 1
  /\ Len(resp.events) > 0

(* ================= properties: consumers of the calculator ============== *)

\* C6 (as claimed): every consumer that classifies a cow's cycle decides it
\* from the most recent insemination event only: a cow whose most recent
\* event is failed or pending is never treated as pregnant (Pregnant status,
\* due for calving, left out of 'needs insemination' after a failure) because
\* of an older confirmedPregnant event.
C6_MostRecentEventDecides ==
  LET Mine(cow) == { k \in 1..Len(insems) : insems[k].cowId = cow._id }
      Newest(cow) == { k \in Mine(cow) : \A j \in Mine(cow) : insems[j].date <= insems[k].date }
      \* the cow has attempts and none of the most recent date is confirmed
      NotConfirmed(cow) == Mine(cow) # {} /\ \A k \in Newest(cow) : ~insems[k].confirmedPregnant
      AllFailed(cow) == \A k \in Newest(cow) : insems[k].failed
      InList(id, l) == \E k \in 1..Len(l) : l[k] = id
  IN  /\ (resp.op = "buildPregnancyInfo" /\ NotConfirmed(cows[resp.cow]))
         => resp.body.status # "Pregnant"
      /\ resp.op = "dashboard"
         => \A i \in 1..Len(cows) : NotConfirmed(cows[i])
              => /\ ~InList(cows[i]._id, resp.needsAttention.cowsDueForCalving)
                 /\ AllFailed(cows[i])
                    => InList(cows[i]._id, resp.needsAttention.cowsNeedingInsemination)

C8_DefaultsAgreeAcrossConsumers ==
  LET tables == << calcDefaults, alertDefaults, addInseminationDefaults, checkDateDefaults,
                   settingsPageDefaults, dashboardDefaults, communitySchemaDefaults,
                   communityUpdateDefaults >>
  IN  resp.op \in {"buildPregnancyInfo", "buildAlerts", "dashboard"} =>
      \A p \in TimingParams : settings[p] = Null =>
        \A i, j \in 1..Len(tables) :
          (p \in DOMAIN tables[i] /\ p \in DOMAIN tables[j]) => tables[i][p] = tables[j][p]

\* C9 (as claimed): a timing parameter explicitly configured as 0 is used as
\* 0 by buildPregnancyInfo, buildAlerts and the insemination endpoints; a
\* default is substituted only when the value is absent.
C9_ExplicitZeroIsUsed ==
  /\ (resp.op = "buildPregnancyInfo" /\ settings.postpartumInseminationStartDays = Some(0)
        /\ cows[resp.cow].lastCalving # Null)
     => AddDays(cows[resp.cow].lastCalving[1], addPostpartumStartDays(settings))
          = cows[resp.cow].lastCalving[1]
  /\ (resp.op = "buildPregnancyInfo" /\ settings.inseminationIntervalDays = Some(0)
        /\ resp.body.latest # Null)
     => checkDateOf(resp.body.latest[1], settings) = resp.body.latest[1].date
  /\ (resp.op = "buildPregnancyInfo" /\ settings.gestationDays = Some(0))
     => resp.body.gestationDays = 0
  /\ (resp.op = "buildPregnancyInfo" /\ settings.inseminationIntervalDays = Some(0)
        /\ resp.body.retryWindowEnd # Null)
     => resp.body.retryWindowEnd = Some(resp.body.latest[1].date)
  /\ (resp.op = "buildPregnancyInfo" /\ settings.postpartumInseminationStartDays = Some(0)
        /\ resp.body.latest = Null /\ cows[resp.cow].lastCalving # Null)
     => resp.body.nextInseminationEarliest = cows[resp.cow].lastCalving
  /\ resp.op = "buildAlerts"
     => \A e \in 1..Len(resp.events) :
          LET p == CASE resp.events[e].type = "calving" -> "calvingAlertBeforeDays"
                     [] resp.events[e].type = "dryOff" -> "dryOffAlertBeforeDays"
                     [] resp.events[e].type = "changeFeed" -> "changeFeedAlertBeforeDays"
                     [] resp.events[e].type = "pregnancyCheck" -> "pregnancyCheckAlertBeforeDays"
                     [] resp.events[e].type = "insemination" -> "inseminationAlertBeforeDays"
          IN  settings[p] = Some(0) => resp.events[e].alertDate = resp.events[e].when

\* C10: for every cow the event list of buildAlerts holds exactly one event
\* for each non-null date among estCalving (calving), dryOffDate (dryOff),
\* changeFeedDate (changeFeed), nextInseminationEarliest (insemination) and
\* retryWindowEnd (pregnancyCheck), with when equal to that date and
\* alertDate equal to when minus the lead time of its type in days, and no
\* other event for that cow.
C10_OneEventPerProjectedDate ==
  resp.op = "buildAlerts" =>
    \A i \in 1..Len(cows) :
      LET b == buildPregnancyInfo(cows[i], settings, insems, now)
          mine == { e \in 1..Len(resp.events) :
                      resp.events[e].entity = [type |-> "cow", id |-> cows[i]._id] }
          Of(type) == { e \in mine : resp.events[e].type = type }
          One(type, date, leadParam) ==
            IF date = Null THEN Of(type) = {}
            ELSE /\ Cardinality(Of(type)) = 1
                 /\ \A e \in Of(type) :
                      /\ resp.events[e].when = date[1]
                      /\ resp.events[e].alertDate =
                           date[1] - TicksPerDay
                                     * NullishDefault(settings[leadParam], alertDefaults[leadParam])
      IN  /\ One("calving", b.estCalving, "calvingAlertBeforeDays")
          /\ One("dryOff", b.dryOffDate, "dryOffAlertBeforeDays")
          /\ One("changeFeed", b.changeFeedDate, "changeFeedAlertBeforeDays")
          /\ One("insemination", b.nextInseminationEarliest, "inseminationAlertBeforeDays")
          /\ One("pregnancyCheck", b.retryWindowEnd, "pregnancyCheckAlertBeforeDays")
          /\ \A e \in mine :
               resp.events[e].type \in
                 {"calving", "dryOff", "changeFeed", "insemination", "pregnancyCheck"}

\* C10 witness: one cow Pregnant with its three projected dates, the other
\* one Pending with a pregnancy check, and a lead time that moves the alert
C10_Witness ==
  /\ resp.op = "buildAlerts"
  /\ \E e \in 1..Len(resp.events) :
       resp.events[e].type = "calving" /\ resp.events[e].alertDate < resp.events[e].when
  /\ \E e \in 1..Len(resp.events) : resp.events[e].type = "dryOff"
  /\ \E e \in 1..Len(resp.events) : resp.events[e].type = "changeFeed"
  /\ \E e, f \in 1..Len(resp.events) :
       /\ resp.events[e].type = "pregnancyCheck"
       /\ resp.events[f].type = "calving"
       /\ resp.events[e].entity.id # resp.events[f].entity.id

(***************************************************************************)
(* Local calendar of the server: the fields a JavaScript Date exposes.     *)
(* Day 0 is Thursday 1970-01-01; a month index runs 0..11 as in getMonth.  *)
(***************************************************************************)
\* the local calendar day a Date falls on, as a day number
localDay(t) == (t + tz) \div TicksPerDay

\* the local time of day of a Date, in ticks after local midnight
timeOfDay(t) == (t + tz) % TicksPerDay

\* the Date at the given local day and time of day
fromLocal(day, tod) == day * TicksPerDay + tod - tz

\* day number of the proleptic Gregorian date y-(m+1)-d; d may run outside the
\* month, as the Date constructor and the setters allow
daysFromCivil(y, m, d) ==
  LET yy == y + (m \div 12)
      mm == (m % 12) + 1
      yc == IF mm <= 2 THEN yy - 1 ELSE yy
      era == yc \div 400
      yoe == yc - era * 400
      mp == IF mm > 2 THEN mm - 3 ELSE mm + 9
      doy == (153 * mp + 2) \div 5
      doe == yoe * 365 + (yoe \div 4) - (yoe \div 100) + doy
  IN  era * 146097 + doe - 719468 + (d - 1)

\* getFullYear / getMonth / getDate of a day number
civilFromDays(z) ==
  LET zz == z + 719468
      era == zz \div 146097
      doe == zz - era * 146097
      yoe == (doe - (doe \div 1460) + (doe \div 36524) - (doe \div 146096)) \div 365
      doy == doe - (365 * yoe + (yoe \div 4) - (yoe \div 100))
      mp == (5 * doy + 2) \div 153
      d == doy - ((153 * mp + 2) \div 5) + 1
      mm == IF mp < 10 THEN mp + 3 ELSE mp - 9
  IN  [ year |-> yoe + era * 400 + (IF mm <= 2 THEN 1 ELSE 0),
        month |-> mm - 1,
        date |-> d ]

\* Date.prototype.getDay: 0 = Sunday
getDay(t) == (localDay(t) + 4) % 7

\* Date.prototype.getDate
getDate(t) == civilFromDays(localDay(t)).date

\* d.setHours(0,0,0,0)
startOfDay(t) == fromLocal(localDay(t), 0)

\* variant: a month is counted as 30 days
setMonth_ThirtyDays(t, months) == AddDays(t, 30 * months)

\* target.setMonth(target.getMonth() + months): the month field moves, the day
\* of the month and the time of day stay, and an overflowing day rolls over
setMonth(t, months) ==
  LET c == civilFromDays(localDay(t))
  IN  fromLocal(daysFromCivil(c.year, c.month + months, c.date), timeOfDay(t))

\* new Date(d).toISOString().slice(0,10): the UTC calendar day
isoDay(t) == t \div TicksPerDay

\* a Date given by its local calendar date, at local midnight
localMidnight(y, m, d) == fromLocal(daysFromCivil(y, m, d), 0)

(***************************************************************************)
(* buildAlerts: calf milestones, confirmation overlay, calendar views.     *)
(***************************************************************************)
\* pastDue keeps at most this many events (.slice(0,100) in the code, scaled)
PastDueCap == 2

\* the time value of an Invalid Date (new Date of an unparseable value); every
\* parseable Date of a stored record is at or after tick 0
NaN == 0 - 999999

\* d.setDate(d.getDate() + n) on a Date that may be invalid
setDateBy(d, n) == IF d = NaN THEN NaN ELSE AddDays(d, n)

\* target.setMonth(target.getMonth() + months) on a Date that may be invalid
setMonthBy(d, months) == IF d = NaN THEN NaN ELSE setMonth(d, months)

\* a calf document: birthDate is Null, Some(date) or Some(NaN); gender "" is absent.
\* Event labels leave out the "(gender)" suffix the code appends.
Calf(id, birthDate, gender, status, graduated) ==
  [ _id |-> id, birthDate |-> birthDate, gender |-> gender,
    status |-> status, graduated |-> graduated ]

\* one iteration of the weaning loop  for (const calf of calves) { ... }
weaningEvent(calf, stg) ==
  IF calf.birthDate = Null \/ calf.gender = "" THEN <<>>
  ELSE LET wDays == IF calf.gender = "female"
                    THEN NullishDefault(stg.femaleWeaningDays, alertDefaults.femaleWeaningDays)
                    ELSE NullishDefault(stg.maleWeaningDays, alertDefaults.maleWeaningDays)
           wWhen == setDateBy(calf.birthDate[1], wDays)
       IN  << [ when |-> wWhen,
                alertDate |-> setDateBy(wWhen, 0 - lead(stg).weaning),
                type |-> "weaning",
                label |-> "Weaning",
                entity |-> [type |-> "calf", id |-> calf._id],
                meta |-> Null ] >>

\* one iteration of the graduation loop  for (const calf of calves) { ... }
graduationEvent(calf, stg) ==
  IF calf.graduated THEN <<>>
  ELSE IF calf.birthDate = Null \/ calf.gender = "" THEN <<>>
  ELSE LET months == IF calf.gender = "female"
                     THEN NullishDefault(stg.femaleMaturityMonths, alertDefaults.femaleMaturityMonths)
                     ELSE NullishDefault(stg.maleMaturityMonths, alertDefaults.maleMaturityMonths)
           when == setMonthBy(calf.birthDate[1], months)
       IN  << [ when |-> when,
                alertDate |-> setDateBy(when, 0 - lead(stg).graduation),
                type |-> "graduation",
                label |-> "Graduate",
                entity |-> [type |-> "calf", id |-> calf._id],
                meta |-> Null ] >>

RECURSIVE weaningEvents(_, _)
weaningEvents(ks, stg) ==
  IF ks = <<>> THEN <<>> ELSE weaningEvent(Head(ks), stg) \o weaningEvents(Tail(ks), stg)

RECURSIVE graduationEvents(_, _)
graduationEvents(ks, stg) ==
  IF ks = <<>> THEN <<>> ELSE graduationEvent(Head(ks), stg) \o graduationEvents(Tail(ks), stg)

\* the events array after the three loops, before confirmation filtering
allEvents(cs, ks, stg, recs, t) ==
  allCowEvents(cs, stg, recs, t) \o weaningEvents(ks, stg) \o graduationEvents(ks, stg)

\* a confirmation document
Confirmation(id, entityType, entityId, type, when, undone) ==
  [ _id |-> id, entityType |-> entityType, entityId |-> entityId,
    type |-> type, when |-> when, undone |-> undone ]

\* confKey: `${e.entity.type}:${e.entity.id}:${e.type}:${toISOString().slice(0,10)}`
confKey(e) == <<e.entity.type, e.entity.id, e.type, isoDay(e.when)>>

\* the key built from a confirmation in  new Set(confirmations.filter(...).map(...))
confirmationKey(c) == <<c.entityType, c.entityId, c.type, isoDay(c.when)>>

\* the confirmations that reach the key set: (confirmations || []).filter(c => !c.undone)
activeConfirmations(confs) == SelectSeq(confs, LAMBDA c : ~c.undone)

\* toISOString() throws RangeError on an Invalid Date, in the key of an event
\* or of an active confirmation
keysThrow(events, confs) ==
  \/ \E i \in 1..Len(events) : events[i].when = NaN
  \/ \E i \in 1..Len(activeConfirmations(confs)) : activeConfirmations(confs)[i].when = NaN

\* variant: the key set is built from every confirmation, undone or not
confirmedKeys_IgnoresUndone(confs) ==
  { confirmationKey(confs[i]) : i \in 1..Len(confs) }

\* const confirmed = new Set(...)
confirmedKeys(confs) ==
  { confirmationKey(activeConfirmations(confs)[i]) : i \in 1..Len(activeConfirmations(confs)) }

\* variant: keys compare the exact instant instead of the day
filterActive_ExactInstant(events, confs) ==
  SelectSeq(events, LAMBDA e :
    ~\E i \in 1..Len(activeConfirmations(confs)) :
        LET c == activeConfirmations(confs)[i]
        IN  <<c.entityType, c.entityId, c.type, c.when>>
              = <<e.entity.type, e.entity.id, e.type, e.when>>)

\* const filtered = events.filter(e => !confirmed.has(confKey(e)))
filterActive(events, confs) ==
  SelectSeq(events, LAMBDA e : confKey(e) \notin confirmedKeys(confs))

RECURSIVE InsertByAlertDateAsc(_, _)
\* position of one event in the ascending order; equal alertDates keep their order
InsertByAlertDateAsc(e, sorted) ==
  IF sorted = <<>> THEN <<e>>
  ELSE IF e.alertDate < Head(sorted).alertDate THEN <<e>> \o sorted
  ELSE <<Head(sorted)>> \o InsertByAlertDateAsc(e, Tail(sorted))

RECURSIVE SortByAlertDateAsc(_)
\* .sort((a,b) => new Date(a.alertDate) - new Date(b.alertDate)), a stable sort
SortByAlertDateAsc(s) ==
  IF s = <<>> THEN <<>>
  ELSE InsertByAlertDateAsc(s[Len(s)], SortByAlertDateAsc(SubSeq(s, 1, Len(s) - 1)))

\* .slice(0, n)
slice0(s, n) == SubSeq(s, 1, IF Len(s) < n THEN Len(s) ELSE n)

\* now = anchorDate ? new Date(anchorDate) : new Date()
anchorOf(anchor, t) == IF anchor = Null THEN t ELSE anchor[1]

\* variant: the week begins on the anchor's own day
startOfWeekOf_AnchorDay(a) == fromLocal(localDay(a), 0)

\* startOfWeek: back to Sunday, then setHours(0,0,0,0)
startOfWeekOf(a) == fromLocal(localDay(a) - getDay(a), 0)

\* endOfWeek = startOfWeek + 7 days
endOfWeekOf(a) == AddDays(startOfWeekOf(a), 7)

\* new Date(now.getFullYear(), now.getMonth(), 1)
startOfMonthOf(a) ==
  LET c == civilFromDays(localDay(a)) IN localMidnight(c.year, c.month, 1)

\* new Date(y, m + 1, 0) then setHours(23,59,59,999): the last instant of the month
endOfMonthOf(a) ==
  LET c == civilFromDays(localDay(a))
  IN  fromLocal(daysFromCivil(c.year, c.month + 1, 0), TicksPerDay - 1)

\* variant: past due is measured from the anchor's day
realTodayStart_FromAnchor(a, t) == startOfDay(a)

\* realTodayStart = new Date(); setHours(0,0,0,0): the anchor plays no part
realTodayStart(a, t) == startOfDay(t)

\* variant: the cap is applied before sorting
pastDueOf_CapBeforeSort(filtered, a, t) ==
  SortByAlertDateAsc(
    slice0(SelectSeq(filtered, LAMBDA ev : ev.alertDate < realTodayStart(a, t)), PastDueCap))

\* filtered.filter(ev => ev.alertDate < realTodayStart).sort(...).slice(0,100)
pastDueOf(filtered, a, t) ==
  slice0(SortByAlertDateAsc(
           SelectSeq(filtered, LAMBDA ev : ev.alertDate < realTodayStart(a, t))),
         PastDueCap)

\* the views computed from the filtered events.  A month view is the number
\* of day cells and, in order, the events with the day cell each was pushed to
\* (cell idx-1 of monthDays for idx = getDate()); the other cells are empty.
calendarViews(filtered, a, t) ==
  LET sow == startOfWeekOf(a)
      eow == endOfWeekOf(a)
      som == startOfMonthOf(a)
      eom == endOfMonthOf(a)
      totalDays == getDate(eom)
      c == civilFromDays(localDay(a))
      weekDay(i) == fromLocal(localDay(sow) + i, TicksPerDay \div 2)
      \* wi = Math.floor((d - startOfWeek) / (1000*60*60*24))
      InWeek(d, i) == d >= sow /\ d < eow /\ (d - sow) \div TicksPerDay = i
      InMonth(d) == d >= som /\ d <= eom
      byAlert == SelectSeq(filtered, LAMBDA ev : InMonth(ev.alertDate))
      byDue == SelectSeq(filtered, LAMBDA ev : InMonth(ev.when))
  IN  [ threw |-> FALSE,
        week |-> [ i \in 1..7 |->
                   [ date |-> weekDay(i - 1),
                     items |-> SelectSeq(filtered, LAMBDA ev : InWeek(ev.when, i - 1)) ] ],
        weekAlerts |-> [ i \in 1..7 |->
                   [ date |-> weekDay(i - 1),
                     items |-> SelectSeq(filtered, LAMBDA ev : InWeek(ev.alertDate, i - 1)) ] ],
        month |-> [ year |-> c.year, monthIndex |-> c.month, totalDays |-> totalDays,
                    items |-> [ k \in 1..Len(byAlert) |->
                                [ day |-> getDate(byAlert[k].alertDate), item |-> byAlert[k] ] ] ],
        monthDue |-> [ year |-> c.year, monthIndex |-> c.month, totalDays |-> totalDays,
                    items |-> [ k \in 1..Len(byDue) |->
                                [ day |-> getDate(byDue[k].when), item |-> byDue[k] ] ] ],
        pastDue |-> pastDueOf(filtered, a, t) ]

\* buildAlerts({cows, calves, settings, insems, confirmations}, anchorDate) at
\* real time t: the views, or an exception leaving the function
buildAlerts(cs, ks, stg, recs, confs, anchor, t) ==
  LET events == allEvents(cs, ks, stg, recs, t)
  IN  IF keysThrow(events, confs) THEN [threw |-> TRUE]
      ELSE calendarViews(filterActive(events, confs), anchorOf(anchor, t), t)

(***************************************************************************)
(* Alerts: snapshots read by GET / and GET /alerts, and the calls on them. *)
(***************************************************************************)
\* UTC offsets of the server, in ticks
TzOffsets == {0, 1}

\* the anchor query parameter: absent, a day of the first week of the data,
\* or a day more than a year later
Anchors == {Null, Some(AddDays(1, 3)), Some(AddDays(0, 400))}

\* real times at which a snapshot is first read
AlertNows == {0, AddDays(0, 6)}

\* a herd with one pregnant cow and one cow with a pending attempt
ReferenceCows == << [_id |-> 1, lastCalving |-> Null], [_id |-> 2, lastCalving |-> Some(0)] >>

ReferenceInsems == << Attempt(1, 1, 0, "confirmed"), Attempt(2, 2, 1, "pending") >>

ReferenceCalf == Calf(11, Some(1), "female", "alive", FALSE)

\* calves as they can be stored or imported
CalfShapes ==
  { Calf(12, b, g, st, gr) :
      b \in {Null, Some(1), Some(AddDays(1, 30)), Some(NaN)},
      g \in {"", "female", "male"},
      st \in {"alive", "miscarriage", "died"},
      gr \in BOOLEAN }

\* confirmations a client can have stored for the milestone e: its own day at
\* another time, a neighbouring instant, another milestone type or another
\* entity, undone or not, or with an unparseable when
ConfirmationsAbout(e) ==
  { Confirmation(21, et, id, ty, w, u) :
      et \in {e.entity.type},
      id \in {e.entity.id, 2},
      ty \in {e.type, "dryOff"},
      w \in {e.when - 1, e.when, e.when + 1},
      u \in BOOLEAN }
    \cup { Confirmation(21, IF e.entity.type = "cow" THEN "calf" ELSE "cow",
                        e.entity.id, e.type, e.when, FALSE),
           Confirmation(21, e.entity.type, e.entity.id, e.type, NaN, FALSE),
           Confirmation(21, e.entity.type, e.entity.id, e.type, NaN, TRUE) }

\* snapshots that vary the calves
InitCalves ==
  /\ cows = ReferenceCows
  /\ insems = ReferenceInsems
  /\ calves \in {<<>>} \cup { <<k>> : k \in CalfShapes } \cup { <<k, ReferenceCalf>> : k \in CalfShapes }
  /\ confirmations = <<>>

\* snapshots that vary the cows' histories
InitHerd ==
  /\ \E lc \in {Null, Some(0)} :
       cows = << [_id |-> 1, lastCalving |-> lc], [_id |-> 2, lastCalving |-> Null] >>
  /\ \E a \in {<<>>} \cup { <<Attempt(1, 1, d, f)>> : d \in {0, 1}, f \in FlagStates } :
     \E b \in {<<>>, <<Attempt(2, 2, 0, "confirmed")>>} :
       insems = a \o b
  /\ calves = <<ReferenceCalf>>
  /\ confirmations = <<>>

\* snapshots that vary one stored confirmation
InitConfirmations ==
  /\ cows = ReferenceCows
  /\ insems = ReferenceInsems
  /\ calves = <<ReferenceCalf>>
  /\ \E i \in 1..Len(allEvents(cows, calves, settings, insems, now)) :
       \E c \in ConfirmationsAbout(allEvents(cows, calves, settings, insems, now)[i]) :
         confirmations = <<c>>

InitAlerts ==
  /\ settings \in SettingsDocs
  /\ now \in AlertNows
  /\ tz \in TzOffsets
  /\ resp = NoResponse
  /\ req = NoRequest
  /\ nextId = 1
  /\ audits = <<>>
  /\ cowOverride = FALSE
  /\ adults = <<>>
  /\ procs = <<>>
  /\ (InitCalves \/ InitHerd \/ InitConfirmations)

\* GET /alerts?anchor=... (GET / is the call without an anchor): the snapshot is
\* read and buildAlerts runs on it; an exception becomes a 500 response
GetAlerts(anchor) ==
  /\ resp' = [ op |-> "alerts", anchor |-> anchor,
               body |-> buildAlerts(cows, calves, settings, insems, confirmations, anchor, now) ]
  /\ UNCHANGED <<audits, cowOverride, adults, procs, cows, insems, settings, now, calves, confirmations, tz, req, nextId>>

NextAlerts ==
  \/ \E a \in Anchors : GetAlerts(a)
  \/ Tick

SpecAlerts == InitAlerts /\ [][NextAlerts]_vars

(***************************************************************************)
(* Properties of the alerts.                                               *)
(***************************************************************************)
SeqSet(s) == { s[i] : i \in 1..Len(s) }

\* every event some view of an alerts result shows
shown(b) ==
  UNION { SeqSet(b.week[i].items) : i \in 1..7 }
    \cup UNION { SeqSet(b.weekAlerts[i].items) : i \in 1..7 }
    \cup { b.month.items[k].item : k \in 1..Len(b.month.items) }
    \cup { b.monthDue.items[k].item : k \in 1..Len(b.monthDue.items) }
    \cup SeqSet(b.pastDue)

\* an alerts call has returned views (it did not throw)
AlertsReturned == resp.op = "alerts" /\ ~resp.body.threw

\* C11: a calf that is graduated, or whose status is miscarriage or died, has
\* neither a weaning nor a graduation event in any view of buildAlerts.
C11_OnlyLiveUngraduatedCalvesGetMilestones ==
  AlertsReturned =>
    \A k \in 1..Len(calves) :
      (calves[k].graduated \/ calves[k].status # "alive") =>
        \A e \in shown(resp.body) :
          ~(e.entity = [type |-> "calf", id |-> calves[k]._id]
              /\ e.type \in {"weaning", "graduation"})

\* the events buildAlerts generates from the snapshot, before the overlay
snapshotEvents == allEvents(cows, calves, settings, insems, now)

\* some confirmation that is not undone names the event's entity and milestone
\* type and has its when on the day DayOf gives the event's when
MatchedOn(e, DayOf(_)) ==
  \E i \in 1..Len(confirmations) :
    /\ ~confirmations[i].undone
    /\ confirmations[i].entityType = e.entity.type
    /\ confirmations[i].entityId = e.entity.id
    /\ confirmations[i].type = e.type
    /\ DayOf(confirmations[i].when) = DayOf(e.when)

\* the views of the events that no confirmation matches on the given kind of day
ViewsWithout(DayOf(_)) ==
  calendarViews(SelectSeq(snapshotEvents, LAMBDA e : ~MatchedOn(e, DayOf)),
                anchorOf(resp.anchor, now), now)

unconfirmedEvents == SelectSeq(snapshotEvents, LAMBDA e : ~MatchedOn(e, isoDay))

\* C15: pastDue does not depend on the anchor: two calls on the same snapshot
\* at the same real time, with whatever anchors, return the same pastDue list,
\* and every event in it has its alertDate before the start of the real
\* current day.
C15_PastDueIgnoresAnchor ==
  [][ (resp'.op = "alerts" /\ ~resp'.body.threw) =>
        /\ \A i \in 1..Len(resp'.body.pastDue) :
             resp'.body.pastDue[i].alertDate < startOfDay(now')
        /\ (resp.op = "alerts" /\ now' = now) =>
             resp'.body.pastDue = resp.body.pastDue ]_vars

\* a call anchored more than a year ahead leaves out of pastDue an event whose
\* alert falls between the real day and the anchor, and keeps an older one
C15_Witness ==
  /\ AlertsReturned
  /\ resp.anchor = Some(AddDays(0, 400))
  /\ resp.body.pastDue # <<>>
  /\ \E e \in SeqSet(unconfirmedEvents) :
       /\ e.alertDate >= startOfDay(now)
       /\ e.alertDate < startOfDay(resp.anchor[1])
       /\ e \notin SeqSet(resp.body.pastDue)

\* C16: pastDue holds only unconfirmed events whose alertDate is before the
\* start of the real current day, in ascending order of alertDate, at most
\* PastDueCap of them; when more qualify, the ones returned are the earliest.
C16_PastDueSortedAndCapped ==
  AlertsReturned =>
    LET pd == resp.body.pastDue
        due == SelectSeq(unconfirmedEvents, LAMBDA e : e.alertDate < startOfDay(now))
    IN  /\ Len(pd) = (IF Len(due) < PastDueCap THEN Len(due) ELSE PastDueCap)
        /\ SeqSet(pd) \subseteq SeqSet(due)
        /\ \A i, j \in 1..Len(pd) : i < j => pd[i].alertDate <= pd[j].alertDate
        /\ \A e \in SeqSet(due) \ SeqSet(pd) :
             \A i \in 1..Len(pd) : pd[i].alertDate <= e.alertDate

\* more events qualify than the cap admits, and one that was cut is strictly
\* later than every one returned
C16_Witness ==
  /\ AlertsReturned
  /\ Len(resp.body.pastDue) = PastDueCap
  /\ \E e \in SeqSet(unconfirmedEvents) :
       /\ e.alertDate < startOfDay(now)
       /\ e \notin SeqSet(resp.body.pastDue)
       /\ \A i \in 1..Len(resp.body.pastDue) : resp.body.pastDue[i].alertDate < e.alertDate
  /\ \E i, j \in 1..Len(resp.body.pastDue) :
       resp.body.pastDue[i].alertDate < resp.body.pastDue[j].alertDate

C18_UnparseableDatesAreSkipped ==
  resp.op = "alerts" =>
    /\ ~resp.body.threw
    /\ resp.body =
         buildAlerts(cows, SelectSeq(calves, LAMBDA k : k.birthDate # Some(NaN)),
                     settings, insems,
                     SelectSeq(confirmations, LAMBDA c : c.when # NaN),
                     resp.anchor, now)

(***************************************************************************)
(* Confirmation overlay: POST /confirmation, POST /confirmation/:id/undo,  *)
(* and the data import that replaces an existing cow's records.            *)
(***************************************************************************)
\* how many documents the store creates in one behaviour
MaxIds == 2

\* the first _id not taken by the documents of the reference snapshot
FirstFreeId == Len(ReferenceInsems) + 1

\* bodies a client posts: for a calving or weaning milestone of the snapshot,
\* its own when or half a day later; or a body with an entity type outside the enum
ConfirmationBodies ==
  UNION { { [entityType |-> e.entity.type, entityId |-> e.entity.id,
               type |-> e.type, when |-> w] : w \in {e.when, e.when + 1} } :
          e \in { x \in SeqSet(snapshotEvents) : x.type \in {"calving", "weaning"} } }
    \cup { [entityType |-> "herd", entityId |-> 1, type |-> "calving", when |-> 0] }

\* POST /confirmation: 400 on a bad body, otherwise a new document, undone = false
PostConfirmation(b) ==
  /\ nextId < FirstFreeId + MaxIds
  /\ IF b.entityType \notin {"cow", "calf", "bull"}
     THEN /\ resp' = [op |-> "confirmation", status |-> 400]
          /\ UNCHANGED <<confirmations, nextId>>
     ELSE /\ confirmations' = Append(confirmations,
                 Confirmation(nextId, b.entityType, b.entityId, b.type, b.when, FALSE))
          /\ nextId' = nextId + 1
          /\ resp' = [op |-> "confirmation", status |-> 201]
  /\ UNCHANGED <<audits, cowOverride, adults, procs, cows, insems, settings, now, calves, tz, req>>

\* POST /confirmation/:id/undo: findByIdAndUpdate(id, { undone: true }), 404 if absent
PostConfirmationUndo(id) ==
  /\ IF \E i \in 1..Len(confirmations) : confirmations[i]._id = id
     THEN /\ confirmations' = [ i \in 1..Len(confirmations) |->
                                IF confirmations[i]._id = id
                                THEN [confirmations[i] EXCEPT !.undone = TRUE]
                                ELSE confirmations[i] ]
          /\ resp' = [op |-> "undo", status |-> 200]
     ELSE /\ resp' = [op |-> "undo", status |-> 404]
          /\ UNCHANGED confirmations
  /\ UNCHANGED <<audits, cowOverride, adults, procs, cows, insems, settings, now, calves, tz, req, nextId>>

\* the exported form of cow 1 that an import file can carry: its inseminations
\* and confirmations are included or left out
ImportedCows ==
  { [ inseminations |-> ins, confirmations |-> cfs ] :
      ins \in { <<>>, <<[date |-> 0, confirmedPregnant |-> TRUE, failed |-> FALSE]>> },
      cfs \in { <<>>, <<[type |-> "dryOff", when |-> 0, undone |-> FALSE]>> } }

\* POST /community/import/execute for a file whose one cow matches cow 1 by
\* number: under a replace decision the cow's inseminations and confirmations
\* are deleted and recreated from the file when the file includes any
ImportExecute(mode, imp) ==
  /\ nextId + Len(imp.inseminations) + Len(imp.confirmations) <= FirstFreeId + MaxIds
  /\ IF mode = "overwrite-all"
     THEN /\ insems' =
               IF imp.inseminations # <<>>
               THEN SelectSeq(insems, LAMBDA r : r.cowId # 1)
                      \o [ k \in 1..Len(imp.inseminations) |->
                           [ _id |-> nextId + k - 1, cowId |-> 1,
                             date |-> imp.inseminations[k].date,
                             confirmedPregnant |-> imp.inseminations[k].confirmedPregnant,
                             failed |-> imp.inseminations[k].failed ] ]
               ELSE insems
          /\ confirmations' =
               IF imp.confirmations # <<>>
               THEN SelectSeq(confirmations,
                              LAMBDA c : ~(c.entityType = "cow" /\ c.entityId = 1))
                      \o [ k \in 1..Len(imp.confirmations) |->
                           Confirmation(nextId + Len(imp.inseminations) + k - 1, "cow", 1,
                                        imp.confirmations[k].type,
                                        imp.confirmations[k].when,
                                        imp.confirmations[k].undone) ]
               ELSE confirmations
          /\ nextId' = nextId + Len(imp.inseminations) + Len(imp.confirmations)
          /\ resp' = [op |-> "import", updated |-> 1, skipped |-> 0]
     ELSE /\ resp' = [op |-> "import", updated |-> 0, skipped |-> 1]
          /\ UNCHANGED <<insems, confirmations, nextId>>
  /\ UNCHANGED <<audits, cowOverride, adults, procs, cows, settings, now, calves, tz, req>>

InitOverlay ==
  /\ cows = ReferenceCows
  /\ insems = ReferenceInsems
  /\ calves = <<ReferenceCalf>>
  /\ settings = SettingsCustom
  /\ now = 0
  /\ tz = 0
  /\ confirmations = <<>>
  /\ nextId = FirstFreeId
  /\ audits = <<>>
  /\ cowOverride = FALSE
  /\ adults = <<>>
  /\ procs = <<>>
  /\ resp = NoResponse
  /\ req = NoRequest

NextOverlay ==
  \/ \E b \in ConfirmationBodies : PostConfirmation(b)
  \/ \E id \in FirstFreeId..(FirstFreeId + MaxIds) : PostConfirmationUndo(id)
  \/ \E mode \in {"overwrite-all", "keep-all"} : \E imp \in ImportedCows : ImportExecute(mode, imp)
  \/ \E a \in Anchors : GetAlerts(a)

SpecOverlay == InitOverlay /\ [][NextOverlay]_vars

(***************************************************************************)
(* Properties of the confirmation overlay.                                 *)
(***************************************************************************)
\* the confirmation names the event: same entity type, entity id and milestone
\* type, and a when on the same UTC day
NamesEvent(c, e) ==
  /\ c.entityType = e.entity.type
  /\ c.entityId = e.entity.id
  /\ c.type = e.type
  /\ isoDay(c.when) = isoDay(e.when)

\* the event is in the views of this response wherever the snapshot's events,
\* without any overlay, put it
PresentAgain(e) ==
  e \in shown(calendarViews(snapshotEvents, anchorOf(resp.anchor, now), now))
    => e \in shown(resp.body)

\* C13 (as stated): after any sequence of create operations, once a
\* confirmation is undone every event it suppressed is present again in the
\* next buildAlerts result.
C13_UndoneConfirmationShowsItsEvents ==
  AlertsReturned =>
    \A i \in 1..Len(confirmations) : \A e \in SeqSet(snapshotEvents) :
      (confirmations[i].undone /\ NamesEvent(confirmations[i], e)) => PresentAgain(e)

\* C13 (amended): the same, for the events that no other confirmation which
\* is not undone names.
C13_UndoneConfirmationShowsItsEventsUnlessDuplicated ==
  AlertsReturned =>
    \A i \in 1..Len(confirmations) : \A e \in SeqSet(snapshotEvents) :
      ( /\ confirmations[i].undone
        /\ NamesEvent(confirmations[i], e)
        /\ \A j \in 1..Len(confirmations) :
             NamesEvent(confirmations[j], e) => confirmations[j].undone )
        => PresentAgain(e)

\* one confirmation was undone and its event is shown again, while another
\* confirmation still hides a different event
C13_Witness ==
  /\ AlertsReturned
  /\ \E i, j \in 1..Len(confirmations) : \E e, f \in SeqSet(snapshotEvents) :
       /\ confirmations[i].undone /\ NamesEvent(confirmations[i], e)
       /\ e \in shown(resp.body)
       /\ ~confirmations[j].undone /\ NamesEvent(confirmations[j], f)
       /\ f \notin shown(resp.body)
       /\ f \in shown(calendarViews(snapshotEvents, anchorOf(resp.anchor, now), now))

\* C14: no operation removes a confirmation from the store: every document
\* present before a step is present after it.
C14_ConfirmationsAreNeverRemoved ==
  [][ \A i \in 1..Len(confirmations) :
        \E j \in 1..Len(confirmations') : confirmations'[j]._id = confirmations[i]._id ]_vars

(***************************************************************************)
(* Calf profile: getCalfGraduationInfo.                                    *)
(***************************************************************************)
\* getCalfGraduationInfo(calf, settings) at time t: null, or targetDate,
\* daysLeft and ready; an Invalid Date target gives NaN differences
getCalfGraduationInfo(calf, stg, t) ==
  IF calf.birthDate = Null \/ calf.gender = "" THEN Null
  ELSE LET femaleMonths == NullishDefault(stg.femaleMaturityMonths, alertDefaults.femaleMaturityMonths)
           maleMonths == NullishDefault(stg.maleMaturityMonths, alertDefaults.maleMaturityMonths)
           thresholdMonths == IF calf.gender = "female" THEN femaleMonths ELSE maleMonths
           target == setMonthBy(calf.birthDate[1], thresholdMonths)
           msLeft == target - t
       IN  IF target = NaN
           THEN Some([targetDate |-> NaN, daysLeft |-> NaN, ready |-> FALSE])
           ELSE Some([targetDate |-> target, daysLeft |-> CeilDays(msLeft), ready |-> msLeft <= 0])

\* real times of the calf profile requests: the day after a birth on
\* 1970-01-01, and the days around two months later
CalfNows == { AddDays(1, n) : n \in {0, 58, 59, 60} }

InitCalf ==
  /\ cows = <<>>
  /\ insems = <<>>
  /\ calves \in { <<k>> : k \in CalfShapes }
  /\ confirmations = <<>>
  /\ settings \in SettingsDocs
  /\ now \in CalfNows
  /\ tz \in TzOffsets
  /\ resp = NoResponse
  /\ req = NoRequest
  /\ nextId = 1
  /\ audits = <<>>
  /\ cowOverride = FALSE
  /\ adults = <<>>
  /\ procs = <<>>

\* GET /profile/calf/:id for a stored calf
GetCalfProfile(i) ==
  /\ resp' = [ op |-> "profileCalf", calf |-> calves[i],
               gradInfo |-> getCalfGraduationInfo(calves[i], settings, now) ]
  /\ UNCHANGED <<audits, cowOverride, adults, procs, cows, insems, settings, now, calves, confirmations, tz, req, nextId>>

\* time passes until a later request
Later(t) ==
  /\ t > now
  /\ now' = t
  /\ resp' = NoResponse
  /\ UNCHANGED <<audits, cowOverride, adults, procs, cows, insems, settings, calves, confirmations, tz, req, nextId>>

NextCalf ==
  \/ \E i \in 1..Len(calves) : GetCalfProfile(i)
  \/ \E t \in CalfNows : Later(t)

SpecCalf == InitCalf /\ [][NextCalf]_vars

\* the maturity months the settings give for the calf's sex, 24 when absent
MaturityMonths(k) ==
  IF k.gender = "female"
  THEN (IF settings.femaleMaturityMonths = Null THEN 24 ELSE settings.femaleMaturityMonths[1])
  ELSE (IF settings.maleMaturityMonths = Null THEN 24 ELSE settings.maleMaturityMonths[1])

\* C19: getCalfGraduationInfo returns null when birthDate or gender is
\* missing; otherwise targetDate has the birth's day of month and time of day
\* in the month that lies the maturity months later (a day beyond the end of
\* that month rolls into the next), and ready holds exactly when the current
\* time is at or after targetDate.
C19_GraduationInfoByCalendarMonths ==
  (resp.op = "profileCalf" /\ resp.calf.birthDate # Some(NaN)) =>
    LET k == resp.calf
        g == resp.gradInfo
    IN  IF k.birthDate = Null \/ k.gender = "" THEN g = Null
        ELSE LET b == civilFromDays(localDay(k.birthDate[1]))
                 first == daysFromCivil(b.year, b.month + MaturityMonths(k), 1)
                 tc == civilFromDays(first)
             IN  /\ g # Null
                 /\ tc.date = 1
                 /\ tc.year * 12 + tc.month = b.year * 12 + b.month + MaturityMonths(k)
                 /\ localDay(g[1].targetDate) = first + b.date - 1
                 /\ timeOfDay(g[1].targetDate) = timeOfDay(k.birthDate[1])
                 /\ g[1].ready = (now >= g[1].targetDate)

\* a calf is ready at the very instant of its target date, which the 30-day
\* count would put on another day
C19_Witness ==
  /\ resp.op = "profileCalf"
  /\ resp.gradInfo # Null
  /\ resp.calf.birthDate # Some(NaN)
  /\ resp.gradInfo[1].ready
  /\ now = resp.gradInfo[1].targetDate
  /\ resp.gradInfo[1].targetDate # AddDays(resp.calf.birthDate[1], 30 * MaturityMonths(resp.calf))

(***************************************************************************)
(* Tenancy: sessions, loadUser and getCommunityFilter.                     *)
(***************************************************************************)
Communities == {"c1", "c2", "c3"}

\* the stored users: a SuperAdmin without memberships, a user who is a member
\* of two communities, and a user without any membership
Users ==
  [ root |-> [role |-> "SuperAdmin", memberships |-> <<>>],
    ann  |-> [role |-> "User", memberships |-> <<"c1", "c2">>],
    bob  |-> [role |-> "User", memberships |-> <<>>] ]

UserIds == DOMAIN Users

\* a session nobody has logged in on
EmptySession ==
  [ userId |-> Null, communityId |-> Null, impersonating |-> FALSE,
    impersonatingCommunityId |-> Null, originalCommunityId |-> Null ]

\* loadUser: the user, the current community and the session as it leaves
\* the middleware
loadUser(session) ==
  IF session.userId = Null
  THEN [user |-> Null, communityId |-> Null, session |-> session]
  ELSE LET user == Users[session.userId[1]]
       IN  IF session.impersonating /\ session.impersonatingCommunityId # Null
           THEN [user |-> Some(user), communityId |-> session.impersonatingCommunityId,
                 session |-> session]
           ELSE IF session.communityId # Null
           THEN [user |-> Some(user), communityId |-> session.communityId, session |-> session]
           ELSE IF Len(user.memberships) > 0
           THEN [user |-> Some(user), communityId |-> Some(user.memberships[1]),
                 session |-> [session EXCEPT !.communityId = Some(user.memberships[1])]]
           ELSE [user |-> Some(user), communityId |-> Null, session |-> session]

\* the request object a route handler receives on the session, with the
\* query parameter communityId the client chose
Incoming(session, q) ==
  LET l == loadUser(session)
  IN  [ kind |-> "request", session |-> l.session, query |-> [communityId |-> q],
        user |-> l.user, communityId |-> l.communityId ]

\* filters are sets of field conditions: {} matches every document
CommunityIs(c) == { <<"community", c>> }

getCommunityFilter(r) ==
  IF r.session.impersonating /\ r.session.impersonatingCommunityId # Null
  THEN CommunityIs(r.session.impersonatingCommunityId)
  ELSE IF r.query.communityId # Null
  THEN CommunityIs(r.query.communityId)
  ELSE IF r.communityId # Null
  THEN CommunityIs(r.communityId)
  ELSE IF r.user # Null /\ r.user[1].role = "SuperAdmin"
  THEN {}
  ELSE CommunityIs(Null)

InitFilter ==
  /\ cows = <<>>
  /\ insems = <<>>
  /\ calves = <<>>
  /\ confirmations = <<>>
  /\ settings = SettingsAllAbsent
  /\ now = 0
  /\ tz = 0
  /\ nextId = 1
  /\ audits = <<>>
  /\ cowOverride = FALSE
  /\ adults = <<>>
  /\ procs = <<>>
  /\ resp = NoResponse
  /\ req = Incoming(EmptySession, Null)

FilterFrame == UNCHANGED <<audits, cowOverride, adults, procs, cows, insems, settings, now, calves, confirmations, tz, nextId>>

\* POST /auth/login with the credentials of user u
Login(u) ==
  /\ req.session.userId = Null
  /\ LET r == Incoming(req.session, Null)
         s == [r.session EXCEPT !.userId = Some(u)]
     IN  req' = [r EXCEPT !.session =
                   IF Users[u].role = "SuperAdmin" THEN [s EXCEPT !.communityId = Null]
                   ELSE IF Len(Users[u].memberships) > 0
                   THEN [s EXCEPT !.communityId = Some(Users[u].memberships[1])]
                   ELSE s]
  /\ resp' = [op |-> "login", status |-> 302]
  /\ FilterFrame

\* POST /auth/logout
Logout ==
  /\ req' = [Incoming(req.session, Null) EXCEPT !.session = EmptySession]
  /\ resp' = [op |-> "logout", status |-> 302]
  /\ FilterFrame

\* POST /auth/switch-community with body.communityId = c
SwitchCommunity(c) ==
  /\ req.session.userId # Null
  /\ LET r == Incoming(req.session, Null)
         user == Users[req.session.userId[1]]
         isMember == \E i \in 1..Len(user.memberships) : user.memberships[i] = c
     IN  IF user.role = "SuperAdmin" \/ isMember
         THEN /\ req' = [r EXCEPT !.session.communityId = Some(c)]
              /\ resp' = [op |-> "switchCommunity", status |-> 302]
         ELSE /\ req' = r
              /\ resp' = [op |-> "switchCommunity", status |-> 403]
  /\ FilterFrame

\* POST /admin/impersonate/:communityId behind isAuthenticated and isSuperAdmin
Impersonate(c) ==
  /\ req.session.userId # Null
  /\ LET r == Incoming(req.session, Null)
     IN  IF r.user[1].role # "SuperAdmin"
         THEN /\ req' = r
              /\ resp' = [op |-> "impersonate", status |-> 403]
         ELSE /\ req' = [r EXCEPT !.session =
                           [ r.session EXCEPT !.originalCommunityId = r.session.communityId,
                                              !.impersonating = TRUE,
                                              !.impersonatingCommunityId = Some(c),
                                              !.communityId = Some(c) ]]
              /\ resp' = [op |-> "impersonate", status |-> 302]
  /\ FilterFrame

\* POST /admin/stop-impersonating behind isAuthenticated and isSuperAdmin
StopImpersonating ==
  /\ req.session.userId # Null
  /\ LET r == Incoming(req.session, Null)
     IN  IF r.user[1].role # "SuperAdmin"
         THEN /\ req' = r
              /\ resp' = [op |-> "stopImpersonating", status |-> 403]
         ELSE /\ req' = [r EXCEPT !.session =
                           [ r.session EXCEPT !.communityId = r.session.originalCommunityId,
                                              !.impersonating = FALSE,
                                              !.impersonatingCommunityId = Null,
                                              !.originalCommunityId = Null ]]
              /\ resp' = [op |-> "stopImpersonating", status |-> 302]
  /\ FilterFrame

\* a tenant-scoped route that queries with getCommunityFilter(req), called
\* with the query parameter communityId = q
QueryWithFilter(q) ==
  /\ req' = Incoming(req.session, q)
  /\ resp' = [op |-> "communityFilter", filter |-> getCommunityFilter(Incoming(req.session, q))]
  /\ FilterFrame

NextFilter ==
  \/ \E u \in UserIds : Login(u)
  \/ Logout
  \/ \E c \in Communities : SwitchCommunity(c)
  \/ \E c \in Communities : Impersonate(c)
  \/ StopImpersonating
  \/ \E q \in {Null} \cup { Some(c) : c \in Communities } : QueryWithFilter(q)

SpecFilter == InitFilter /\ [][NextFilter]_vars

\* C20: for a request of a logged-in user who is not a SuperAdmin, the filter
\* names the user's current community, or community null when the user has
\* none, whatever the query parameters are; it is never the unrestricted
\* filter and never names another community.
C20_NonSuperAdminStaysInOwnCommunity ==
  (resp.op = "communityFilter" /\ req.user # Null /\ req.user[1].role # "SuperAdmin") =>
    resp.filter = CommunityIs(req.communityId)

(* ============ properties: the calculator and the order of events ========= *)
\* the same events supplied in every possible order
Reorderings(s) ==
  { [i \in 1..Len(s) |-> s[f[i]]] :
      f \in { g \in [1..Len(s) -> 1..Len(s)] : \A i, j \in 1..Len(s) : g[i] = g[j] => i = j } }

\* C27: buildPregnancyInfo depends only on the set of events it is given:
\* supplied in any other order, events of the same date included, the same
\* events give the same status, the same date and flags of the latest event
\* and the same projected dates.
C27_EventOrderDoesNotMatter ==
  resp.op = "buildPregnancyInfo" =>
    \A other \in Reorderings(insems) :
      LET a == resp.body
          b == buildPregnancyInfo(cows[resp.cow], settings, other, now)
      IN  /\ b.status = a.status
          /\ (b.latest = Null) = (a.latest = Null)
          /\ a.latest # Null =>
                /\ b.latest[1].date = a.latest[1].date
                /\ b.latest[1].confirmedPregnant = a.latest[1].confirmedPregnant
                /\ b.latest[1].failed = a.latest[1].failed
          /\ b.conceptionDate = a.conceptionDate
          /\ b.estCalving = a.estCalving
          /\ b.dryOffDate = a.dryOffDate
          /\ b.changeFeedDate = a.changeFeedDate
          /\ b.retryWindowEnd = a.retryWindowEnd
          /\ b.nextInseminationEarliest = a.nextInseminationEarliest

(* ==================== properties: impersonation ========================= *)
\* C29: impersonating one or more times and then stopping brings the session
\* back: every impersonation keeps in originalCommunityId the communityId the
\* session had before the first one, and stop-impersonating puts that value
\* back (absent if it was absent) and clears impersonating,
\* impersonatingCommunityId and originalCommunityId.
C29_StopImpersonatingRestoresSession ==
  [][ LET before == req.session
          after == req'.session
      IN  /\ (resp'.op = "impersonate" /\ resp'.status = 302)
               => after.originalCommunityId =
                    (IF before.impersonating THEN before.originalCommunityId
                     ELSE before.communityId)
          /\ (resp'.op = "stopImpersonating" /\ resp'.status = 302)
               => /\ after.communityId = before.originalCommunityId
                  /\ ~after.impersonating
                  /\ after.impersonatingCommunityId = Null
                  /\ after.originalCommunityId = Null ]_vars

(***************************************************************************)
(* Graduation of calves: autoGraduateCalves and POST /calf/:id/graduate.   *)
(***************************************************************************)
MaxRuns == 2

\* Math.floor((now - new Date(k.birthDate)) / (1000*60*60*24*30))
monthsOld(k, t) == (t - k.birthDate[1]) \div (30 * TicksPerDay)

\* the maturity threshold of autoGraduateCalves for the calf's sex
autoThreshold(k, stg) ==
  IF k.gender = "female"
  THEN NullishDefault(stg.femaleMaturityMonths, alertDefaults.femaleMaturityMonths)
  ELSE NullishDefault(stg.maleMaturityMonths, alertDefaults.maleMaturityMonths)

\* the loop body's two  continue  tests: false when the calf is passed over
autoPromotes(k, stg, t) ==
  /\ k.birthDate # Null
  /\ k.gender # ""
  /\ monthsOld(k, t) >= autoThreshold(k, stg)

\* Calf.find({ graduated: { $ne: true }, status: 'alive' })
ungraduatedAlive(ks) == SelectSeq(ks, LAMBDA k : ~k.graduated /\ k.status = "alive")

\* adultType = 'cow' for a female calf, 'bull' otherwise
adultTypeOf(k) == IF k.gender = "female" THEN "cow" ELSE "bull"

\* the Cow or Bull document made from calf k; calfId records which calf the
\* document was copied from
AdultFrom(id, k) == [_id |-> id, type |-> adultTypeOf(k), dob |-> k.birthDate, calfId |-> k._id]

\* Calf.findByIdAndUpdate(k._id, { graduated: true, graduatedAt, adultType, adultId })
MarkGraduated(ks, calfId, type, adultId, t) ==
  [ i \in 1..Len(ks) |->
      IF ks[i]._id = calfId
      THEN [adultType |-> type, adultId |-> adultId, graduatedAt |-> t]
             @@ [ks[i] EXCEPT !.graduated = TRUE]
      ELSE ks[i] ]

\* calves.findById(id)
FindCalf(ks, id) ==
  LET hits == SelectSeq(ks, LAMBDA k : k._id = id)
  IN  IF hits = <<>> THEN Null ELSE Some(hits[1])

RECURSIVE autoGraduateLoop(_, _, _, _, _)
\* the whole  for (const k of calves)  loop run without interruption: the
\* store after it, the adults made and the next free _id
autoGraduateLoop(todo, st, stg, t, promoted) ==
  IF todo = <<>> THEN [calves |-> st.calves, adults |-> st.adults, nextId |-> st.nextId,
                       promoted |-> promoted]
  ELSE LET k == Head(todo)
       IN  IF ~autoPromotes(k, stg, t)
           THEN autoGraduateLoop(Tail(todo), st, stg, t, promoted)
           ELSE autoGraduateLoop(Tail(todo),
                  [ calves |-> MarkGraduated(st.calves, k._id, adultTypeOf(k), st.nextId, t),
                    adults |-> Append(st.adults, AdultFrom(st.nextId, k)),
                    nextId |-> st.nextId + 1 ],
                  stg, t, promoted + 1)

\* autoGraduateCalves() run to its end on the store at time t
autoGraduateCalves(ks, ads, id, stg, t) ==
  autoGraduateLoop(ungraduatedAlive(ks), [calves |-> ks, adults |-> ads, nextId |-> id],
                   stg, t, 0)

(***************************************************************************)
(* Insemination history: add, confirm, unconfirm, fail, delete, clear,     *)
(* restore, calving, and the override session flag.                        *)
(***************************************************************************)
MaxAudits == 2

\* an insemination document with all its stored fields
StoredAttempt(id, cowId, date, confirmedPregnant, failed, forced, notes) ==
  [ _id |-> id, cowId |-> cowId, date |-> date, confirmedPregnant |-> confirmedPregnant,
    failed |-> failed, forced |-> forced, notes |-> notes ]

\* an audit document
Audit(id, cowId, inseminationId, action, actor, payload) ==
  [ _id |-> id, cowId |-> cowId, inseminationId |-> inseminationId, action |-> action,
    actor |-> actor, payload |-> payload ]

\* logAudit appends one entry to the log
logAudit(log, entry) == Append(log, entry)

\* Insemination.findOne({ _id: inseminationId, cowId: id })
FindAttempt(recs, cowId, id) ==
  LET hits == SelectSeq(recs, LAMBDA r : r._id = id /\ r.cowId = cowId)
  IN  IF hits = <<>> THEN Null ELSE Some(hits[1])

\* variant: the latest attempt is the one stored last, whatever its date
latestAttemptOf_ByIdOnly(recs, cowId) ==
  LET mine == { i \in 1..Len(recs) : recs[i].cowId = cowId }
  IN  IF mine = {} THEN Null
      ELSE Some(recs[CHOOSE i \in mine : \A j \in mine : recs[j]._id <= recs[i]._id])

\* Insemination.findOne({ cowId }).sort({ date: -1, _id: -1 })
latestAttemptOf(recs, cowId) ==
  LET mine == { i \in 1..Len(recs) : recs[i].cowId = cowId }
  IN  IF mine = {} THEN Null
      ELSE Some(recs[CHOOSE i \in mine : \A j \in mine :
                       \/ recs[j].date < recs[i].date
                       \/ (recs[j].date = recs[i].date /\ recs[j]._id <= recs[i]._id)])

\* the collection without the document of that _id
WithoutId(recs, id) == SelectSeq(recs, LAMBDA r : r._id # id)

\* variant: confirming does not clear the failure marker
confirmUpdate_KeepsFailed(doc) == [doc EXCEPT !.confirmedPregnant = TRUE]

\* { confirmedPregnant: true, failed: false }
confirmUpdate(doc) == [doc EXCEPT !.confirmedPregnant = TRUE, !.failed = FALSE]

\* { confirmedPregnant: false, failed: false }
unconfirmUpdate(doc) == [doc EXCEPT !.confirmedPregnant = FALSE, !.failed = FALSE]

\* { failed: true, confirmedPregnant: false }
failUpdate(doc) == [doc EXCEPT !.failed = TRUE, !.confirmedPregnant = FALSE]

\* the update document of the handler op
updateOf(op, doc) ==
  CASE op = "confirm"   -> confirmUpdate(doc)
    [] op = "unconfirm" -> unconfirmUpdate(doc)
    [] op = "fail"      -> failUpdate(doc)

\* findOneAndUpdate({ _id }, update): the same documents, one of them updated
UpdateOne(recs, id, op) ==
  [ i \in 1..Len(recs) |-> IF recs[i]._id = id THEN updateOf(op, recs[i]) ELSE recs[i] ]

\* Cow.findByIdAndUpdate(id, { lastCalving }) and { $unset: { lastCalving } }
SetLastCalving(cs, cowId, lc) ==
  [ i \in 1..Len(cs) |-> IF cs[i]._id = cowId THEN [cs[i] EXCEPT !.lastCalving = lc] ELSE cs[i] ]

CowById(cs, cowId) == cs[CHOOSE i \in 1..Len(cs) : cs[i]._id = cowId]

\* Audit.findById(auditId)
FindAudit(log, id) ==
  LET hits == SelectSeq(log, LAMBDA a : a._id = id)
  IN  IF hits = <<>> THEN Null ELSE Some(hits[1])

\* variant: the forced flag is accepted from any session
forcedDenied_Never(forced, override) == FALSE

\* if (forced && !req.session.cowOverride) return 403
forcedDenied(forced, override) == forced /\ ~override

\* variant: the check date is the attempt's own date
tooEarlyToEvaluate_NoInterval(doc, stg, t, override) == t < doc.date /\ ~override

\* if (new Date() < checkDate && !req.session.cowOverride) return 403
tooEarlyToEvaluate(doc, stg, t, override) == t < checkDateOf(doc, stg) /\ ~override

\* variant: the snapshot's failed flag is not carried over
restoredFrom_DropsFailed(id, cowId, snap) ==
  StoredAttempt(id, cowId, snap.date, snap.confirmedPregnant, FALSE, snap.forced, snap.notes)

\* Insemination.create({ cowId: id, date: snap.date, confirmedPregnant: !!..., ... })
restoredFrom(id, cowId, snap) ==
  StoredAttempt(id, cowId, snap.date, snap.confirmedPregnant, snap.failed, snap.forced, snap.notes)

\* passwords a client can send to POST /override/login
Passwords == {"", "override123", "wrong"}

\* bodies of POST /cow/:id/insemination: today's date or an explicit one
AddBodies ==
  { [date |-> Null, forced |-> FALSE, notes |-> ""],
    [date |-> Null, forced |-> TRUE, notes |-> "early"],
    [date |-> Some(0), forced |-> FALSE, notes |-> "am"] }

\* bodies of POST /cow/:id/calving: with or without a calf
CalvingBodies == { [date |-> Null, gender |-> ""], [date |-> Null, gender |-> "female"] }

\* a calf born sixty days before the epoch
OldCalf == Calf(11, Some(AddDays(0, 0 - 60)), "female", "alive", FALSE)

\* histories the store can hold when the session starts
InitHistories ==
  { <<>>,
    << StoredAttempt(1, 1, 0, FALSE, FALSE, FALSE, "") >>,
    << StoredAttempt(1, 1, 0, TRUE, FALSE, FALSE, ""),
       StoredAttempt(2, 1, 0, FALSE, TRUE, TRUE, "again") >>,
    << StoredAttempt(1, 1, 1, FALSE, TRUE, FALSE, ""),
       StoredAttempt(2, 2, 0, FALSE, FALSE, FALSE, "") >> }

\* the response to a request on cow c with argument arg
Reply(op, c, arg, status) == [op |-> op, cow |-> c, arg |-> arg, status |-> status]

AttemptsFrame == UNCHANGED <<settings, tz, req, confirmations, procs>>

NothingStored == UNCHANGED <<cows, insems, calves, audits, adults, nextId>>

InitAttempts ==
  /\ cows \in { << [_id |-> 1, lastCalving |-> lc], [_id |-> 2, lastCalving |-> Null] >> :
                  lc \in {Null, Some(0)} }
  /\ insems \in InitHistories
  /\ calves = <<>>
  /\ confirmations = <<>>
  /\ settings \in {SettingsCustom, SettingsAllZero}
  /\ now = 0
  /\ tz = 0
  /\ resp = NoResponse
  /\ req = NoRequest
  /\ nextId = 3
  /\ audits = <<>>
  /\ cowOverride = FALSE
  /\ adults = <<>>
  /\ procs = <<>>

\* POST /override/login
OverrideLogin(password) ==
  /\ IF password = "" THEN resp' = Reply("overrideLogin", Null, password, 400) /\ UNCHANGED cowOverride
     ELSE IF password = "override123"
     THEN resp' = Reply("overrideLogin", Null, password, 200) /\ cowOverride' = TRUE
     ELSE resp' = Reply("overrideLogin", Null, password, 401) /\ UNCHANGED cowOverride
  /\ NothingStored
  /\ UNCHANGED now
  /\ AttemptsFrame

\* POST /override/logout
OverrideLogout ==
  /\ cowOverride' = FALSE
  /\ resp' = Reply("overrideLogout", Null, Null, 200)
  /\ NothingStored
  /\ UNCHANGED now
  /\ AttemptsFrame

\* POST /cow/:id/insemination
AddInsemination(c, body) ==
  /\ Len(audits) < MaxAudits
  /\ LET cow == CowById(cows, c)
         d == IF body.date = Null THEN now ELSE body.date[1]
     IN  IF forcedDenied(body.forced, cowOverride)
         THEN resp' = Reply("addInsemination", c, body, 403) /\ NothingStored
         ELSE IF /\ ~body.forced
                 /\ cow.lastCalving # Null
                 /\ d < AddDays(cow.lastCalving[1], addPostpartumStartDays(settings))
         THEN resp' = Reply("addInsemination", c, body, 400) /\ NothingStored
         ELSE /\ insems' = Append(insems, StoredAttempt(nextId, c, d, FALSE, FALSE,
                                                        body.forced, body.notes))
              /\ audits' = logAudit(audits,
                             Audit(nextId + 1, c, Some(nextId),
                                   IF body.forced THEN "insemination.forced" ELSE "insemination.add",
                                   IF body.forced /\ cowOverride THEN "override" ELSE "user",
                                   [date |-> d, notes |-> body.notes]))
              /\ nextId' = nextId + 2
              /\ resp' = Reply("addInsemination", c, body, 201)
              /\ UNCHANGED <<cows, calves, adults>>
  /\ UNCHANGED <<now, cowOverride>>
  /\ AttemptsFrame

\* the common shape of confirm, unconfirm and fail
EvaluateAttempt(op, c, id) ==
  /\ Len(audits) < MaxAudits
  /\ LET doc == FindAttempt(insems, c, id)
     IN  IF doc = Null
         THEN resp' = Reply(op, c, id, 404) /\ NothingStored
         ELSE IF tooEarlyToEvaluate(doc[1], settings, now, cowOverride)
         THEN resp' = Reply(op, c, id, 403) /\ NothingStored
         ELSE /\ insems' = UpdateOne(insems, id, op)
              /\ audits' = logAudit(audits,
                             Audit(nextId, c, Some(id), "insemination." \o op,
                                   IF cowOverride THEN "override" ELSE "user",
                                   [date |-> doc[1].date]))
              /\ nextId' = nextId + 1
              /\ resp' = Reply(op, c, id, 200)
              /\ UNCHANGED <<cows, calves, adults>>
  /\ UNCHANGED <<now, cowOverride>>
  /\ AttemptsFrame

\* POST /cow/:id/insemination/:inseminationId/confirm
ConfirmInsemination(c, id) == EvaluateAttempt("confirm", c, id)

\* POST /cow/:id/insemination/:inseminationId/unconfirm
UnconfirmInsemination(c, id) == EvaluateAttempt("unconfirm", c, id)

\* POST /cow/:id/insemination/:inseminationId/fail
FailInsemination(c, id) == EvaluateAttempt("fail", c, id)

\* DELETE /cow/:id/insemination/:inseminationId
DeleteInsemination(c, id) ==
  /\ Len(audits) < MaxAudits
  /\ LET latest == latestAttemptOf(insems, c)
     IN  IF ~cowOverride
         THEN resp' = Reply("deleteInsemination", c, id, 403) /\ NothingStored
         ELSE IF latest = Null
         THEN resp' = Reply("deleteInsemination", c, id, 404) /\ NothingStored
         ELSE IF latest[1]._id # id
         THEN resp' = Reply("deleteInsemination", c, id, 400) /\ NothingStored
         ELSE /\ insems' = WithoutId(insems, id)
              /\ audits' = logAudit(audits,
                             Audit(nextId, c, Some(id), "insemination.delete", "override",
                                   [snapshot |-> latest[1]]))
              /\ nextId' = nextId + 1
              /\ resp' = Reply("deleteInsemination", c, id, 200)
              /\ UNCHANGED <<cows, calves, adults>>
  /\ UNCHANGED <<now, cowOverride>>
  /\ AttemptsFrame

\* DELETE /cow/:id/inseminations
ClearInseminations(c) ==
  /\ Len(audits) < MaxAudits
  /\ LET attempts == RecordsOfCow(c, insems)
     IN  IF ~cowOverride
         THEN resp' = Reply("clearInseminations", c, Null, 403) /\ NothingStored
         ELSE IF attempts = <<>>
         THEN resp' = Reply("clearInseminations", c, Null, 200) /\ NothingStored
         ELSE /\ insems' = SelectSeq(insems, LAMBDA r : r.cowId # c)
              /\ audits' = Append(audits,
                             Audit(nextId, c, Null, "insemination.clearAll", "override",
                                   [snapshots |-> attempts]))
              /\ nextId' = nextId + 1
              /\ resp' = Reply("clearInseminations", c, Null, 200)
              /\ UNCHANGED <<cows, calves, adults>>
  /\ UNCHANGED <<now, cowOverride>>
  /\ AttemptsFrame

\* POST /cow/:id/insemination/restore/:auditId
RestoreInsemination(c, auditId) ==
  /\ Len(audits) < MaxAudits
  /\ LET a == FindAudit(audits, auditId)
     IN  IF ~cowOverride
         THEN resp' = Reply("restoreInsemination", c, auditId, 403) /\ NothingStored
         ELSE IF a = Null \/ a[1].action # "insemination.delete"
         THEN resp' = Reply("restoreInsemination", c, auditId, 404) /\ NothingStored
         ELSE /\ insems' = Append(insems, restoredFrom(nextId, c, a[1].payload.snapshot))
              /\ audits' = logAudit(audits,
                             Audit(nextId + 1, c, Some(nextId), "insemination.restore",
                                   "override", [fromAudit |-> auditId]))
              /\ nextId' = nextId + 2
              /\ resp' = Reply("restoreInsemination", c, auditId, 200)
              /\ UNCHANGED <<cows, calves, adults>>
  /\ UNCHANGED <<now, cowOverride>>
  /\ AttemptsFrame

\* the key  toISOString().slice(0,10) + '|' + notes  of the restore-all match
restoreKey(r) == <<isoDay(r.date), r.notes>>

\* POST /cow/:id/inseminations/restore/:auditId
RestoreInseminations(c, auditId) ==
  /\ Len(audits) < MaxAudits
  /\ LET a == FindAudit(audits, auditId)
     IN  IF ~cowOverride
         THEN resp' = Reply("restoreInseminations", c, auditId, 403) /\ NothingStored
         ELSE IF a = Null \/ a[1].action # "insemination.clearAll"
         THEN resp' = Reply("restoreInseminations", c, auditId, 404) /\ NothingStored
         ELSE LET snaps == a[1].payload.snapshots
                  existing == RecordsOfCow(c, insems)
                  existingByKey == { restoreKey(existing[i]) : i \in 1..Len(existing) }
                  toCreate == SelectSeq(snaps, LAMBDA s : restoreKey(s) \notin existingByKey)
                  created == [ i \in 1..Len(toCreate) |->
                                 restoredFrom(nextId + i - 1, c, toCreate[i]) ]
              IN  /\ insems' = insems \o created
                  /\ audits' = logAudit(audits,
                                 Audit(nextId + Len(created), c, Null, "insemination.restoreAll",
                                       "override",
                                       [fromAudit |-> auditId, createdCount |-> Len(created)]))
                  /\ nextId' = nextId + Len(created) + 1
                  /\ resp' = Reply("restoreInseminations", c, auditId, 200)
                  /\ UNCHANGED <<cows, calves, adults>>
  /\ UNCHANGED <<now, cowOverride>>
  /\ AttemptsFrame

\* POST /cow/:id/calving
RecordCalving(c, body) ==
  /\ Len(audits) < MaxAudits
  /\ IF ~cowOverride
     THEN resp' = Reply("recordCalving", c, body, 403) /\ NothingStored
     ELSE LET d == IF body.date = Null THEN now ELSE body.date[1]
              prev == CowById(cows, c)
              withCalf == body.gender \in {"male", "female"}
              auditId == IF withCalf THEN nextId + 1 ELSE nextId
          IN  /\ cows' = SetLastCalving(cows, c, Some(d))
              /\ calves' = IF withCalf
                           THEN Append(calves, Calf(nextId, Some(d), body.gender, "alive", FALSE))
                           ELSE calves
              /\ audits' = Append(audits,
                             Audit(auditId, c, Null, "cow.calving.set", "override",
                                   [from |-> prev.lastCalving, to |-> d,
                                    calfId |-> IF withCalf THEN Some(nextId) ELSE Null]))
              /\ nextId' = auditId + 1
              /\ resp' = Reply("recordCalving", c, body, 200)
              /\ UNCHANGED <<insems, adults>>
  /\ UNCHANGED <<now, cowOverride>>
  /\ AttemptsFrame

\* DELETE /cow/:id/calving
ClearCalving(c) ==
  /\ Len(audits) < MaxAudits
  /\ IF ~cowOverride
     THEN resp' = Reply("clearCalving", c, Null, 403) /\ NothingStored
     ELSE /\ cows' = SetLastCalving(cows, c, Null)
          /\ audits' = Append(audits,
                         Audit(nextId, c, Null, "cow.calving.clear", "override",
                               [from |-> CowById(cows, c).lastCalving]))
          /\ nextId' = nextId + 1
          /\ resp' = Reply("clearCalving", c, Null, 200)
          /\ UNCHANGED <<insems, calves, adults>>
  /\ UNCHANGED <<now, cowOverride>>
  /\ AttemptsFrame

\* POST /cow/:id/calving/restore/:auditId
RestoreCalving(c, auditId) ==
  /\ Len(audits) < MaxAudits
  /\ LET a == FindAudit(audits, auditId)
     IN  IF ~cowOverride
         THEN resp' = Reply("restoreCalving", c, auditId, 403) /\ NothingStored
         ELSE IF a = Null \/ a[1].action \notin {"cow.calving.set", "cow.calving.clear"}
         THEN resp' = Reply("restoreCalving", c, auditId, 404) /\ NothingStored
         ELSE /\ cows' = SetLastCalving(cows, c, a[1].payload.from)
              /\ audits' = logAudit(audits,
                             Audit(nextId, c, Null, "cow.calving.restore", "override",
                                   [fromAudit |-> auditId]))
              /\ nextId' = nextId + 1
              /\ resp' = Reply("restoreCalving", c, auditId, 200)
              /\ UNCHANGED <<insems, calves, adults>>
  /\ UNCHANGED <<now, cowOverride>>
  /\ AttemptsFrame

\* POST /admin/graduate-calves, with no other request in between
GraduateCalvesNow ==
  /\ IF ~cowOverride
     THEN resp' = Reply("graduateCalves", Null, Null, 403) /\ NothingStored
     ELSE LET r == autoGraduateCalves(calves, adults, nextId, settings, now)
          IN  /\ calves' = r.calves
              /\ adults' = r.adults
              /\ nextId' = r.nextId
              /\ resp' = Reply("graduateCalves", Null, r.promoted, 200)
              /\ UNCHANGED <<cows, insems, audits>>
  /\ UNCHANGED <<now, cowOverride>>
  /\ AttemptsFrame

\* the cow whose page the session works on; cow 2 is only looked at
RequestCows == {1}

\* the insemination and audit _ids a client can name
AttemptIds == { insems[i]._id : i \in 1..Len(insems) }

AuditIds == { audits[i]._id : i \in 1..Len(audits) }

NextAttempts ==
  \/ \E pw \in Passwords : OverrideLogin(pw)
  \/ OverrideLogout
  \/ \E c \in RequestCows, b \in AddBodies : AddInsemination(c, b)
  \/ \E c \in RequestCows, id \in AttemptIds : ConfirmInsemination(c, id)
  \/ \E c \in RequestCows, id \in AttemptIds : UnconfirmInsemination(c, id)
  \/ \E c \in RequestCows, id \in AttemptIds : FailInsemination(c, id)
  \/ \E c \in RequestCows, id \in AttemptIds : DeleteInsemination(c, id)
  \/ \E c \in RequestCows, id \in AuditIds : RestoreInsemination(c, id)
  \/ Tick

SpecAttempts == InitAttempts /\ [][NextAttempts]_vars

(***************************************************************************)
(* The override gate: every operation that asks for the session flag.      *)
(***************************************************************************)
InitOverride ==
  /\ cows = << [_id |-> 1, lastCalving |-> Some(0)], [_id |-> 2, lastCalving |-> Null] >>
  /\ insems \in InitHistories
  /\ calves = << OldCalf >>
  /\ confirmations = <<>>
  /\ settings = SettingsCustom
  /\ now = 0
  /\ tz = 0
  /\ resp = NoResponse
  /\ req = NoRequest
  /\ nextId = 3
  /\ audits = <<>>
  /\ cowOverride = FALSE
  /\ adults = <<>>
  /\ procs = <<>>

NextOverride ==
  \/ \E pw \in Passwords : OverrideLogin(pw)
  \/ OverrideLogout
  \/ \E c \in RequestCows, b \in AddBodies : AddInsemination(c, b)
  \/ \E c \in RequestCows, id \in AttemptIds : DeleteInsemination(c, id)
  \/ \E c \in RequestCows : ClearInseminations(c)
  \/ \E c \in RequestCows, id \in AuditIds : RestoreInsemination(c, id)
  \/ \E c \in RequestCows, id \in AuditIds : RestoreInseminations(c, id)
  \/ \E c \in RequestCows, b \in CalvingBodies : RecordCalving(c, b)
  \/ \E c \in RequestCows : ClearCalving(c)
  \/ \E c \in RequestCows, id \in AuditIds : RestoreCalving(c, id)
  \/ GraduateCalvesNow

SpecOverride == InitOverride /\ [][NextOverride]_vars

(* ================= properties: the insemination history ================= *)
\* the stored attempt of that _id
AttemptById(id) == insems[CHOOSE i \in 1..Len(insems) : insems[i]._id = id]

\* C21: after any sequence of add, confirm, unconfirm, fail, delete and
\* restore, no attempt has confirmedPregnant and failed both true; an attempt
\* just added has both false, confirm leaves (true, false), fail leaves
\* (false, true) and unconfirm leaves (false, false).
C21_FlagsAreMutuallyExclusive ==
  /\ \A i \in 1..Len(insems) : ~(insems[i].confirmedPregnant /\ insems[i].failed)
  /\ (resp.op = "addInsemination" /\ resp.status = 201)
       => /\ ~insems[Len(insems)].confirmedPregnant
          /\ ~insems[Len(insems)].failed
  /\ (resp.op = "confirm" /\ resp.status = 200)
       => AttemptById(resp.arg).confirmedPregnant /\ ~AttemptById(resp.arg).failed
  /\ (resp.op = "fail" /\ resp.status = 200)
       => ~AttemptById(resp.arg).confirmedPregnant /\ AttemptById(resp.arg).failed
  /\ (resp.op = "unconfirm" /\ resp.status = 200)
       => ~AttemptById(resp.arg).confirmedPregnant /\ ~AttemptById(resp.arg).failed

\* an attempt that had been marked failed in this session has been confirmed
C21_Witness ==
  /\ resp.op = "confirm"
  /\ resp.status = 200
  /\ \E i \in 1..Len(audits) :
       audits[i].action = "insemination.fail" /\ audits[i].inseminationId = Some(resp.arg)

\* C24: a confirm, unconfirm or fail request on an attempt, made before
\* attempt.date + inseminationIntervalDays by a session without override, is
\* answered 403, leaves the attempts as they were and writes no audit entry.
C24_EarlyEvaluationIsRefused ==
  [][ LET doc == FindAttempt(insems, resp'.cow, resp'.arg)
      IN  ( /\ resp'.op \in {"confirm", "unconfirm", "fail"}
            /\ doc # Null
            /\ settings.inseminationIntervalDays # Null
            /\ now < AddDays(doc[1].date, settings.inseminationIntervalDays[1])
            /\ ~cowOverride )
          => /\ resp'.status = 403
             /\ insems' = insems
             /\ audits' = audits ]_vars

\* a request was refused on the attempt's own day, inside the interval
C24_Witness ==
  /\ resp.op \in {"confirm", "unconfirm", "fail"}
  /\ resp.status = 403
  /\ ~cowOverride
  /\ AttemptById(resp.arg).date <= now

\* C25: a non-forced POST /cow/:id/insemination stores a new attempt only
\* when buildPregnancyInfo for that cow at that moment reports
\* canAddInseminationNow: never while the cow is Pending or Pregnant, never
\* before nextInseminationEarliest.
C25_NonForcedAddOnlyWhenAllowed ==
  [][ (resp'.op = "addInsemination" /\ resp'.status = 201 /\ ~resp'.arg.forced)
      => buildPregnancyInfo(CowById(cows, resp'.cow), settings, insems, now).canAddInseminationNow
    ]_vars

\* attempt a of a cow is more recent than attempt b: later date, or the same
\* date and a greater _id
MoreRecent(a, b) == a.date > b.date \/ (a.date = b.date /\ a._id > b._id)

\* a delete step removes exactly the named attempt, which no remaining
\* attempt of the cow is more recent than; any other delete step removes nothing
DeleteRemovesOnlyTheMostRecent ==
  IF insems' = insems THEN TRUE
  ELSE /\ resp'.status = 200
       /\ \E i \in 1..Len(insems) :
            /\ insems[i]._id = resp'.arg
            /\ insems[i].cowId = resp'.cow
            /\ insems' = WithoutId(insems, resp'.arg)
            /\ \A j \in 1..Len(insems') :
                 insems'[j].cowId = resp'.cow => MoreRecent(insems[i], insems'[j])

\* the named attempt is stored and is not the most recent attempt of the cow
NamesAnotherAttempt ==
  /\ \E i \in 1..Len(insems) : insems[i]._id = resp'.arg
  /\ \E j \in 1..Len(insems) :
       /\ insems[j].cowId = resp'.cow
       /\ insems[j]._id # resp'.arg
       /\ \A i \in 1..Len(insems) :
            (insems[i]._id = resp'.arg /\ insems[i].cowId = resp'.cow)
              => MoreRecent(insems[j], insems[i])

\* C26 (as claimed): DELETE /cow/:id/insemination/:inseminationId removes an
\* attempt only when it is the cow's most recent one (greatest date, then
\* greatest _id); for any other attempt it answers 400 and removes nothing.
C26_DeleteOnlyLatestElse400 ==
  [][ resp'.op = "deleteInsemination"
      => /\ DeleteRemovesOnlyTheMostRecent
         /\ NamesAnotherAttempt => (resp'.status = 400 /\ insems' = insems) ]_vars

\* C26 (amended): the delete removes an attempt only when it is the cow's
\* most recent one; for any other attempt it removes nothing and answers 400
\* when the session's override is active, 403 when it is not.
C26_DeleteOnlyLatestElse400UnderOverride ==
  [][ resp'.op = "deleteInsemination"
      => /\ DeleteRemovesOnlyTheMostRecent
         /\ NamesAnotherAttempt
              => /\ insems' = insems
                 /\ resp'.status = (IF cowOverride THEN 400 ELSE 403) ]_vars

\* the most recent attempt was deleted although a newer document, with an
\* earlier date, remains for the cow
C26_Witness ==
  /\ resp.op = "deleteInsemination"
  /\ resp.status = 200
  /\ \E j \in 1..Len(insems) : insems[j].cowId = resp.cow /\ insems[j]._id > resp.arg

\* the store with document r put back at the place its _id gives it
InsertById(r, recs) ==
  LET before == SelectSeq(recs, LAMBDA x : x._id < r._id)
      after == SelectSeq(recs, LAMBDA x : x._id > r._id)
  IN  before \o <<r>> \o after

\* the last two audit entries are the deletion of a cow's latest attempt and
\* its restoration to the same cow from that deletion's entry
JustRestored ==
  /\ Len(audits) >= 2
  /\ audits[Len(audits)].action = "insemination.restore"
  /\ audits[Len(audits) - 1].action = "insemination.delete"
  /\ audits[Len(audits)].payload.fromAudit = audits[Len(audits) - 1]._id
  /\ audits[Len(audits)].cowId = audits[Len(audits) - 1].cowId

\* C28: deleting a cow's latest attempt and restoring it from that deletion's
\* audit entry is a round trip: the restored attempt has the snapshot's date,
\* confirmedPregnant, failed, forced and notes, and buildPregnancyInfo gives
\* the status and projected dates it gave on the store before the deletion.
C28_DeleteThenRestoreIsARoundTrip ==
  JustRestored =>
    LET snap == audits[Len(audits) - 1].payload.snapshot
        restored == AttemptById(audits[Len(audits)].inseminationId[1])
        cow == CowById(cows, audits[Len(audits)].cowId)
        was == buildPregnancyInfo(cow, settings,
                                  InsertById(snap, WithoutId(insems, restored._id)), now)
        is == buildPregnancyInfo(cow, settings, insems, now)
    IN  /\ restored.cowId = snap.cowId
        /\ restored.date = snap.date
        /\ restored.confirmedPregnant = snap.confirmedPregnant
        /\ restored.failed = snap.failed
        /\ restored.forced = snap.forced
        /\ restored.notes = snap.notes
        /\ is.status = was.status
        /\ is.conceptionDate = was.conceptionDate
        /\ is.estCalving = was.estCalving
        /\ is.dryOffDate = was.dryOffDate
        /\ is.changeFeedDate = was.changeFeedDate
        /\ is.retryWindowEnd = was.retryWindowEnd
        /\ is.nextInseminationEarliest = was.nextInseminationEarliest

\* a failed, forced attempt with notes came back next to an attempt of the
\* same date with other flags
C28_Witness ==
  /\ JustRestored
  /\ LET snap == audits[Len(audits) - 1].payload.snapshot
     IN  /\ snap.failed /\ snap.forced /\ snap.notes # ""
         /\ \E i \in 1..Len(insems) :
              /\ insems[i].cowId = snap.cowId
              /\ insems[i].date = snap.date
              /\ insems[i].confirmedPregnant

(* ===================== properties: the override gate ==================== *)
\* the response answers one of the operations that ask for the override flag
OverrideGated(r) ==
  \/ r.op \in { "recordCalving", "clearCalving", "deleteInsemination", "clearInseminations",
                "restoreInsemination", "restoreInseminations", "restoreCalving",
                "graduateCalves" }
  \/ (r.op = "addInsemination" /\ r.arg.forced)

\* C30: without the session's override flag every override-gated operation
\* (forced insemination, record calving, clear calving, delete attempt, clear
\* all attempts, restore attempt or attempts, restore calving, run graduation
\* now) is answered 403 and leaves cows, attempts, calves, adults and audit
\* entries as they were; hence an attempt stored with forced = true by
\* POST /cow/:id/insemination was stored while override was active.
C30_NoOverrideNoGatedChange ==
  [][ /\ (~cowOverride /\ OverrideGated(resp'))
        => /\ resp'.status = 403
           /\ cows' = cows /\ insems' = insems /\ calves' = calves
           /\ adults' = adults /\ audits' = audits
      /\ (resp'.op = "addInsemination" /\ resp'.status = 201 /\ insems'[Len(insems')].forced)
        => cowOverride ]_vars

\* a forced attempt was refused for want of the override flag
C30_Witness ==
  /\ resp.op = "addInsemination"
  /\ resp.arg.forced
  /\ resp.status = 403
  /\ ~cowOverride

(***************************************************************************)
(* Graduation runs as they interleave: every await is a step of its own.   *)
(***************************************************************************)
\* a male calf born at the epoch, too young for any run of the model
YoungBull == Calf(12, Some(0), "male", "alive", FALSE)

\* who starts autoGraduateCalves: the daily timer or POST /admin/graduate-calves
Triggers == {"timer", "admin"}

\* bodies of POST /calf/:id/graduate
GraduateBodies == { [forced |-> FALSE], [forced |-> TRUE] }

GraduateFrame == UNCHANGED <<cows, insems, settings, confirmations, tz, req, audits>>

InitGraduate ==
  /\ cows = <<>>
  /\ insems = <<>>
  /\ calves \in { << OldCalf >>, << OldCalf, YoungBull >> }
  /\ confirmations = <<>>
  /\ settings = SettingsCustom
  /\ now = 0
  /\ tz = 0
  /\ resp = NoResponse
  /\ req = NoRequest
  /\ nextId = 21
  /\ audits = <<>>
  /\ cowOverride \in BOOLEAN
  /\ adults = <<>>
  /\ procs = <<>>

\* the procs without the i-th
RemoveAt(s, i) == SubSeq(s, 1, i - 1) \o SubSeq(s, i + 1, Len(s))

\* autoGraduateCalves up to its first write: settings, now and the snapshot
\* of calves that are alive and not graduated
StartAutoGraduate(trigger) ==
  /\ Len(procs) < MaxRuns
  /\ IF trigger = "admin" /\ ~cowOverride
     THEN /\ resp' = Reply("graduateCalves", Null, Null, 403)
          /\ UNCHANGED procs
     ELSE /\ procs' = Append(procs, [ kind |-> "auto", trigger |-> trigger,
                                      todo |-> ungraduatedAlive(calves), t |-> now,
                                      adult |-> Null, promoted |-> 0 ])
          /\ UNCHANGED resp
  /\ UNCHANGED <<calves, adults, nextId, now, cowOverride>>
  /\ GraduateFrame

\* the loop of run i reaches  await Cow.create / Bull.create  for the next
\* calf of its snapshot, or passes the calf over
AutoCreateAdult(i) ==
  /\ procs[i].kind = "auto"
  /\ procs[i].todo # <<>>
  /\ procs[i].adult = Null
  /\ LET k == Head(procs[i].todo)
     IN  IF ~autoPromotes(k, settings, procs[i].t)
         THEN /\ procs' = [procs EXCEPT ![i].todo = Tail(@)]
              /\ UNCHANGED <<adults, nextId>>
         ELSE /\ adults' = Append(adults, AdultFrom(nextId, k))
              /\ nextId' = nextId + 1
              /\ procs' = [procs EXCEPT ![i].adult = Some(nextId)]
  /\ UNCHANGED <<calves, now, cowOverride, resp>>
  /\ GraduateFrame

\* await Calf.findByIdAndUpdate(k._id, { graduated: true, ..., adultId })
AutoMarkCalf(i) ==
  /\ procs[i].kind = "auto"
  /\ procs[i].adult # Null
  /\ LET k == Head(procs[i].todo)
     IN  calves' = MarkGraduated(calves, k._id, adultTypeOf(k), procs[i].adult[1], procs[i].t)
  /\ procs' = [procs EXCEPT ![i].todo = Tail(@), ![i].adult = Null, ![i].promoted = @ + 1]
  /\ UNCHANGED <<adults, nextId, now, cowOverride, resp>>
  /\ GraduateFrame

\* the loop of run i is over: return { promoted }
AutoFinish(i) ==
  /\ procs[i].kind = "auto"
  /\ procs[i].todo = <<>>
  /\ procs' = RemoveAt(procs, i)
  /\ resp' = IF procs[i].trigger = "admin"
             THEN Reply("graduateCalves", Null, procs[i].promoted, 200)
             ELSE resp
  /\ UNCHANGED <<calves, adults, nextId, now, cowOverride>>
  /\ GraduateFrame

\* POST /calf/:id/graduate up to its first write: the calf is read and tested
StartManualGraduate(id, body) ==
  /\ Len(procs) < MaxRuns
  /\ LET calf == FindCalf(calves, id)
         info == getCalfGraduationInfo(calf[1], settings, now)
     IN  IF calf = Null
         THEN resp' = Reply("graduateCalf", Null, id, 404) /\ UNCHANGED procs
         ELSE IF calf[1].graduated
         THEN resp' = Reply("graduateCalf", Null, id, 409) /\ UNCHANGED procs
         ELSE IF (info = Null \/ ~info[1].ready) /\ ~(body.forced /\ cowOverride)
         THEN resp' = Reply("graduateCalf", Null, id, 400) /\ UNCHANGED procs
         ELSE /\ procs' = Append(procs, [ kind |-> "manual", calf |-> calf[1], t |-> now,
                                          adult |-> Null ])
              /\ UNCHANGED resp
  /\ UNCHANGED <<calves, adults, nextId, now, cowOverride>>
  /\ GraduateFrame

\* await Cow.create / Bull.create of the manual graduation
ManualCreateAdult(i) ==
  /\ procs[i].kind = "manual"
  /\ procs[i].adult = Null
  /\ adults' = Append(adults, AdultFrom(nextId, procs[i].calf))
  /\ nextId' = nextId + 1
  /\ procs' = [procs EXCEPT ![i].adult = Some(nextId)]
  /\ UNCHANGED <<calves, now, cowOverride, resp>>
  /\ GraduateFrame

\* calf.graduated = true; ...; await calf.save(), and the response
ManualSave(i) ==
  /\ procs[i].kind = "manual"
  /\ procs[i].adult # Null
  /\ calves' = MarkGraduated(calves, procs[i].calf._id, adultTypeOf(procs[i].calf),
                             procs[i].adult[1], procs[i].t)
  /\ resp' = Reply("graduateCalf", Null, procs[i].calf._id, 200)
  /\ procs' = RemoveAt(procs, i)
  /\ UNCHANGED <<adults, nextId, now, cowOverride>>
  /\ GraduateFrame

\* time passes while runs may be under way
Elapse ==
  /\ now < MaxNow
  /\ now' = MaxNow
  /\ UNCHANGED <<calves, adults, nextId, cowOverride, resp, procs>>
  /\ GraduateFrame

NextGraduate ==
  \/ \E trigger \in Triggers : StartAutoGraduate(trigger)
  \/ \E i \in 1..Len(procs) : AutoCreateAdult(i)
  \/ \E i \in 1..Len(procs) : AutoMarkCalf(i)
  \/ \E i \in 1..Len(procs) : AutoFinish(i)
  \/ \E k \in 1..Len(calves), b \in GraduateBodies : StartManualGraduate(calves[k]._id, b)
  \/ \E i \in 1..Len(procs) : ManualCreateAdult(i)
  \/ \E i \in 1..Len(procs) : ManualSave(i)
  \/ Elapse

SpecGraduate == InitGraduate /\ [][NextGraduate]_vars

(* ======================== properties: graduation ======================== *)
\* the adult records copied from the calf of that _id
AdultsOf(calfId) == { i \in 1..Len(adults) : adults[i].calfId = calfId }

\* C22: under any interleaving of manual graduations and autoGraduateCalves
\* runs, each calf gives rise to at most one adult record, and a calf with
\* graduated = true has adultId referring to that single record.
C22_OneAdultPerCalf ==
  \A k \in 1..Len(calves) :
    /\ Cardinality(AdultsOf(calves[k]._id)) <= 1
    /\ calves[k].graduated
         => \E i \in AdultsOf(calves[k]._id) : adults[i]._id = calves[k].adultId

\* C23: autoGraduateCalves converts a calf only when getCalfGraduationInfo
\* for the same calf, settings and time reports ready: never before the
\* birth date plus the maturity months counted by calendar months.
C23_AutoGraduationOnlyWhenReady ==
  \A i \in 1..Len(procs) :
    (procs[i].kind = "auto" /\ procs[i].adult # Null)
      => LET info == getCalfGraduationInfo(Head(procs[i].todo), settings, procs[i].t)
         IN  info # Null /\ info[1].ready

====
